---- MODULE Spec2Model ----
(***************************************************************************)
(* State-machine model of the AppDaemon scene validator                    *)
(* (src/appdaemon_apps/scene_validator/scene_validator.py).                *)
(*                                                                         *)
(* Times are whole seconds.  The hub (state reads, service calls) and the  *)
(* AppDaemon scheduler are the environment: what a read returns and        *)
(* whether a call raises are inputs of the callback that makes the call.   *)
(***************************************************************************)
EXTENDS Integers, Sequences, FiniteSets, TLC

\* ------------------------------------------------------------------------
\* Bounds of the model
\* ------------------------------------------------------------------------
\* last instant the clock reaches
MaxTime == 60
\* the instants at which scenes are activated from outside
TriggerTimes == {0, 10, 20, 40, 60}
\* the environment stops activating scenes once this many activations were accepted
MaxRuns == 5
\* the brightness percents, native brightness values and mireks of the light
\* states the comparator and the actuator are applied to
MaxPercent == 100
MaxNative == 255
MinMirek == 153
MaxMirek == 500

\* ------------------------------------------------------------------------
\* Configuration (self.args read by initialize).  The delays, the tolerances
\* and success_threshold are the defaults; the debounce window, the rate
\* limits, the failure threshold and the breaker timeout are set to smaller
\* values than the defaults (30, 20, 5, 5, 300).
\* ------------------------------------------------------------------------
transition_delay == 5
validation_delay == 2
validation_debounce == 20
level3_settle_delay == 2
max_validations_per_minute == 4
max_validations_per_scene_per_minute == 2
cb_failure_threshold == 2
cb_success_threshold == 2
cb_timeout == 5
brightness_tolerance == 5
\* color_tolerance 0.01, with xy coordinates scaled by 10000
color_tolerance == 100
color_temp_tolerance == 50
\* scene_filter
include_labels == {}
exclude_labels == {"novalidate"}
\* the resource id of scene.uid
exclude_uids == { <<"S","u">> }
name_patterns == {}
\* the 60 s of check_rate_limits
RateWindow == 60

\* Python's None where a string is expected, and where a number is expected
None == "None"
NoneN == -1
\* truth value of an optional number (None and 0 are false)
Truthy(x) == x # NoneN /\ x # 0

Abs(x) == IF x < 0 THEN -x ELSE x
Min(a, b) == IF a < b THEN a ELSE b

RECURSIVE SelectSeq2(_, _, _)
\* [ts for ts in s if now - ts < w]
SelectSeq2(s, t, w) ==
    IF s = <<>> THEN <<>>
    ELSE IF t - Head(s) < w THEN <<Head(s)>> \o SelectSeq2(Tail(s), t, w)
         ELSE SelectSeq2(Tail(s), t, w)

\* ------------------------------------------------------------------------
\* Inventory, entity registry and hub entities
\* ------------------------------------------------------------------------
\* the scene entities of the hub
SceneEntities ==
    {"scene.a", "scene.b", "scene.legacy", "scene.empty", "scene.ghost", "scene.excl",
     "scene.uid"}

\* what get_state("scene") returns to setup_scene_listeners: the entities
\* the listener is registered for, in the deployments the model covers
Deployments ==
    { {"scene.a", "scene.b"}, {"scene.a", "scene.excl"}, {"scene.legacy", "scene.ghost"},
      {"scene.empty"}, {"scene.uid"} }

\* labels attribute of the scene entities
SceneLabels(e) == IF e = "scene.excl" THEN {"novalidate"} ELSE {}

\* friendly name of the scene entities, as a sequence of characters
SceneName(e) == <<e>>

\* one structured action: target.rid and action.{on, dimming, color, color_temperature}
Act(rid, on, hb, b, hxy, x, y, hct, m) ==
    [is_str |-> FALSE, rid |-> rid, on |-> on, has_brightness |-> hb, brightness |-> b,
     has_xy |-> hxy, x |-> x, y |-> y, has_ct |-> hct, mirek |-> m]

\* an action of the legacy format: an opaque string
StrAct ==
    [is_str |-> TRUE, rid |-> <<>>, on |-> FALSE, has_brightness |-> FALSE, brightness |-> 0,
     has_xy |-> FALSE, x |-> 0, y |-> 0, has_ct |-> FALSE, mirek |-> 0]

\* the scenes of the loaded inventories: id and actions
Inventory ==
    { [id |-> <<"S","a">>,
       actions |-> << Act(<<"r","1">>, TRUE, TRUE, 80, FALSE, 0, 0, TRUE, 366),
                      Act(<<"r","2">>, FALSE, FALSE, 0, FALSE, 0, 0, FALSE, 0) >>],
      [id |-> <<"S","b">>,
       actions |-> << Act(<<"r","2">>, TRUE, TRUE, 80, FALSE, 0, 0, TRUE, 366) >>],
      [id |-> <<"S","g">>, actions |-> << StrAct >>],
      [id |-> <<"S","e">>, actions |-> << >>],
      [id |-> <<"S","x">>,
       actions |-> << Act(<<"r","1">>, TRUE, TRUE, 80, FALSE, 0, 0, FALSE, 0) >>],
      [id |-> <<"S","u">>,
       actions |-> << Act(<<"r","1">>, TRUE, TRUE, 80, FALSE, 0, 0, FALSE, 0) >>] }

\* find_scene_in_inventory's None
NoScene == [id |-> <<>>, actions |-> << >>]

\* hue_id_to_entity_id in insertion order: <<unique_id, entity_id>>, the
\* unique ids being character sequences
hue_id_to_entity_id ==
    << << <<"S","a">>, "scene.a" >>,
       << <<"S","b">>, "scene.b" >>,
       << <<"S","g">>, "scene.legacy" >>,
       << <<"S","e">>, "scene.empty" >>,
       << <<"S","x">>, "scene.excl" >>,
       << <<"S","u">>, "scene.uid" >>,
       << <<"r","1">>, "light.l1" >>,
       << <<"b","_","r","2">>, "light.l2" >> >>

LightEntities == {"light.l1", "light.l2"}

\* what get_state(entity, attribute="all") returns: a state object (state,
\* attributes brightness, xy_color, color_temp), nothing, or an exception
Obs(st, b, xy, ct) ==
    [kind |-> "state", state |-> st, brightness |-> b, xy_color |-> xy, color_temp |-> ct]
ReadNone == [kind |-> "none", state |-> None, brightness |-> NoneN, xy_color |-> <<>>, color_temp |-> NoneN]
ReadRaise == [kind |-> "raise", state |-> None, brightness |-> NoneN, xy_color |-> <<>>, color_temp |-> NoneN]

\* the light states the hub answers with in this model
ObsGood == Obs("on", 204, <<>>, 366)
ObsDim == Obs("on", 178, <<>>, 366)
ObsWarm == Obs("on", 204, <<>>, 420)
ObsOff == Obs("off", NoneN, <<>>, NoneN)

\* the answers of the hub to the reads of one validation, for light.l1 and light.l2
HubReads ==
    { << ObsGood, ObsOff >>, << ObsDim, ObsOff >>, << ObsWarm, ObsOff >>,
      << ObsDim, ObsGood >>, << ReadNone, ObsOff >>, << ReadRaise, ObsOff >> }

\* ------------------------------------------------------------------------
\* Identity resolver
\* ------------------------------------------------------------------------
\* unique_id.endswith(r)
EndsWith(u, r) ==
    /\ Len(r) <= Len(u)
    /\ SubSeq(u, Len(u) - Len(r) + 1, Len(u)) = r

\* r in unique_id
Contains(u, r) ==
    \E i \in 1..(Len(u) - Len(r) + 1) : SubSeq(u, i, i + Len(r) - 1) = r

PartialMatch(u, r) ==
    \/ EndsWith(u, r)
    \/ Contains(u, <<"_">> \o r)
    \/ Contains(u, <<"-">> \o r)

\* variant: the first key that matches in either way is taken
EntityIdFromHueId_first_hit(map, hue_resource_id) ==
    LET hits == { i \in 1..Len(map) : \/ map[i][1] = hue_resource_id
                                      \/ PartialMatch(map[i][1], hue_resource_id) }
    IN  IF hits # {} THEN map[CHOOSE i \in hits : \A j \in hits : i <= j][2]
        ELSE None

\* the lookup of get_entity_id_from_hue_id in a mapping given in insertion
\* order: the exact key, else the first key that matches in part, else None
EntityIdFromHueId(map, hue_resource_id) ==
    LET exact == { i \in 1..Len(map) : map[i][1] = hue_resource_id }
        partial == { i \in 1..Len(map) : PartialMatch(map[i][1], hue_resource_id) }
        first(I) == CHOOSE i \in I : \A j \in I : i <= j
    IN  IF exact # {} THEN map[first(exact)][2]
        ELSE IF partial # {} THEN map[first(partial)][2]
        ELSE None

get_entity_id_from_hue_id(hue_resource_id) ==
    EntityIdFromHueId(hue_id_to_entity_id, hue_resource_id)

\* the scene of the inventories whose id is the unique_id registered for the entity
find_scene_in_inventory(entity_id) ==
    LET map == hue_id_to_entity_id
        hits == { i \in 1..Len(map) : map[i][2] = entity_id }
    IN  IF hits = {} THEN NoScene
        ELSE LET hue_scene_id == map[CHOOSE i \in hits : \A j \in hits : i <= j][1]
                 found == { sc \in Inventory : sc.id = hue_scene_id }
             IN  IF found = {} THEN NoScene ELSE CHOOSE sc \in found : TRUE

\* ------------------------------------------------------------------------
\* Comparator
\* ------------------------------------------------------------------------
\* result of one comparison: match, the failure class appended (if any),
\* and whether the comparison raised
CmpResult(m, f, r) == [match |-> m, failures |-> f, raised |-> r]

\* variant: the brightness of the hub (0-255) compared with the percent as it is
compare_light_states_raw_brightness(expected, actual_state) ==
    LET actual_on == (actual_state.state = "on")
        expected_on == expected.on
        bri_raise == expected.has_brightness /\ actual_state.brightness = NoneN
        bri_fail == /\ expected.has_brightness
                    /\ actual_state.brightness # NoneN
                    /\ Abs(expected.brightness - actual_state.brightness) > brightness_tolerance
        xy_fail == /\ expected.has_xy
                   /\ actual_state.xy_color # <<>>
                   /\ \/ Abs(expected.x - actual_state.xy_color[1]) > color_tolerance
                      \/ Abs(expected.y - actual_state.xy_color[2]) > color_tolerance
        ct_checked == expected.has_ct /\ Truthy(actual_state.color_temp)
        ct_raise == ct_checked /\ expected.mirek = NoneN
        ct_fail == /\ ct_checked
                   /\ expected.mirek # NoneN
                   /\ Abs(expected.mirek - actual_state.color_temp) > color_temp_tolerance
    IN  IF expected_on # actual_on THEN CmpResult(FALSE, <<"on_off">>, FALSE)
        ELSE IF ~expected_on THEN CmpResult(TRUE, <<>>, FALSE)
        ELSE IF bri_raise THEN CmpResult(FALSE, <<>>, TRUE)
        ELSE IF bri_fail THEN CmpResult(FALSE, <<"brightness">>, FALSE)
        ELSE IF xy_fail THEN CmpResult(FALSE, <<"color">>, FALSE)
        ELSE IF ct_raise THEN CmpResult(FALSE, <<>>, TRUE)
        ELSE IF ct_fail THEN CmpResult(FALSE, <<"color_temp">>, FALSE)
        ELSE CmpResult(TRUE, <<>>, FALSE)

\* variant: the attributes of a light that should be off are compared too
compare_light_states_off_checked(expected, actual_state) ==
    LET actual_on == (actual_state.state = "on")
        expected_on == expected.on
        \* actual_attrs.get('brightness', 0) / 255 * 100 against the percent
        bri_raise == expected.has_brightness /\ actual_state.brightness = NoneN
        bri_fail == /\ expected.has_brightness
                    /\ actual_state.brightness # NoneN
                    /\ Abs(255 * expected.brightness - 100 * actual_state.brightness)
                          > 255 * brightness_tolerance
        xy_fail == /\ expected.has_xy
                   /\ actual_state.xy_color # <<>>
                   /\ \/ Abs(expected.x - actual_state.xy_color[1]) > color_tolerance
                      \/ Abs(expected.y - actual_state.xy_color[2]) > color_tolerance
        ct_checked == expected.has_ct /\ Truthy(actual_state.color_temp)
        ct_raise == ct_checked /\ expected.mirek = NoneN
        ct_fail == /\ ct_checked
                   /\ expected.mirek # NoneN
                   /\ Abs(expected.mirek - actual_state.color_temp) > color_temp_tolerance
    IN  IF expected_on # actual_on THEN CmpResult(FALSE, <<"on_off">>, FALSE)
        ELSE IF bri_raise THEN CmpResult(FALSE, <<>>, TRUE)
        ELSE IF bri_fail THEN CmpResult(FALSE, <<"brightness">>, FALSE)
        ELSE IF xy_fail THEN CmpResult(FALSE, <<"color">>, FALSE)
        ELSE IF ct_raise THEN CmpResult(FALSE, <<>>, TRUE)
        ELSE IF ct_fail THEN CmpResult(FALSE, <<"color_temp">>, FALSE)
        ELSE CmpResult(TRUE, <<>>, FALSE)

\* variant: every failing rule records its class
compare_light_states_all_rules(expected, actual_state) ==
    LET actual_on == (actual_state.state = "on")
        expected_on == expected.on
        \* actual_attrs.get('brightness', 0) / 255 * 100 against the percent
        bri_raise == expected.has_brightness /\ actual_state.brightness = NoneN
        bri_fail == /\ expected.has_brightness
                    /\ actual_state.brightness # NoneN
                    /\ Abs(255 * expected.brightness - 100 * actual_state.brightness)
                          > 255 * brightness_tolerance
        xy_fail == /\ expected.has_xy
                   /\ actual_state.xy_color # <<>>
                   /\ \/ Abs(expected.x - actual_state.xy_color[1]) > color_tolerance
                      \/ Abs(expected.y - actual_state.xy_color[2]) > color_tolerance
        ct_checked == expected.has_ct /\ Truthy(actual_state.color_temp)
        ct_raise == ct_checked /\ expected.mirek = NoneN
        ct_fail == /\ ct_checked
                   /\ expected.mirek # NoneN
                   /\ Abs(expected.mirek - actual_state.color_temp) > color_temp_tolerance
    IN  IF expected_on # actual_on THEN CmpResult(FALSE, <<"on_off">>, FALSE)
        ELSE IF ~expected_on THEN CmpResult(TRUE, <<>>, FALSE)
        ELSE IF bri_raise THEN CmpResult(FALSE, <<>>, TRUE)
        ELSE IF ct_raise THEN CmpResult(FALSE, <<>>, TRUE)
        ELSE CmpResult(~(bri_fail \/ xy_fail \/ ct_fail),
                       (IF bri_fail THEN <<"brightness">> ELSE <<>>)
                          \o (IF xy_fail THEN <<"color">> ELSE <<>>)
                          \o (IF ct_fail THEN <<"color_temp">> ELSE <<>>),
                       FALSE)

\* variant: a light without an xy value fails the color rule
compare_light_states_mode_unskipped(expected, actual_state) ==
    LET actual_on == (actual_state.state = "on")
        expected_on == expected.on
        \* actual_attrs.get('brightness', 0) / 255 * 100 against the percent
        bri_raise == expected.has_brightness /\ actual_state.brightness = NoneN
        bri_fail == /\ expected.has_brightness
                    /\ actual_state.brightness # NoneN
                    /\ Abs(255 * expected.brightness - 100 * actual_state.brightness)
                          > 255 * brightness_tolerance
        xy_fail == /\ expected.has_xy
                   /\ \/ actual_state.xy_color = <<>>
                      \/ Abs(expected.x - actual_state.xy_color[1]) > color_tolerance
                      \/ Abs(expected.y - actual_state.xy_color[2]) > color_tolerance
        ct_checked == expected.has_ct /\ Truthy(actual_state.color_temp)
        ct_raise == ct_checked /\ expected.mirek = NoneN
        ct_fail == /\ ct_checked
                   /\ expected.mirek # NoneN
                   /\ Abs(expected.mirek - actual_state.color_temp) > color_temp_tolerance
    IN  IF expected_on # actual_on THEN CmpResult(FALSE, <<"on_off">>, FALSE)
        ELSE IF ~expected_on THEN CmpResult(TRUE, <<>>, FALSE)
        ELSE IF bri_raise THEN CmpResult(FALSE, <<>>, TRUE)
        ELSE IF bri_fail THEN CmpResult(FALSE, <<"brightness">>, FALSE)
        ELSE IF xy_fail THEN CmpResult(FALSE, <<"color">>, FALSE)
        ELSE IF ct_raise THEN CmpResult(FALSE, <<>>, TRUE)
        ELSE IF ct_fail THEN CmpResult(FALSE, <<"color_temp">>, FALSE)
        ELSE CmpResult(TRUE, <<>>, FALSE)

\* variant: a brightness difference of exactly the tolerance fails
compare_light_states_brightness_inclusive(expected, actual_state) ==
    LET actual_on == (actual_state.state = "on")
        expected_on == expected.on
        \* actual_attrs.get('brightness', 0) / 255 * 100 against the percent
        bri_raise == expected.has_brightness /\ actual_state.brightness = NoneN
        bri_fail == /\ expected.has_brightness
                    /\ actual_state.brightness # NoneN
                    /\ Abs(255 * expected.brightness - 100 * actual_state.brightness)
                          >= 255 * brightness_tolerance
        xy_fail == /\ expected.has_xy
                   /\ actual_state.xy_color # <<>>
                   /\ \/ Abs(expected.x - actual_state.xy_color[1]) > color_tolerance
                      \/ Abs(expected.y - actual_state.xy_color[2]) > color_tolerance
        ct_checked == expected.has_ct /\ Truthy(actual_state.color_temp)
        ct_raise == ct_checked /\ expected.mirek = NoneN
        ct_fail == /\ ct_checked
                   /\ expected.mirek # NoneN
                   /\ Abs(expected.mirek - actual_state.color_temp) > color_temp_tolerance
    IN  IF expected_on # actual_on THEN CmpResult(FALSE, <<"on_off">>, FALSE)
        ELSE IF ~expected_on THEN CmpResult(TRUE, <<>>, FALSE)
        ELSE IF bri_raise THEN CmpResult(FALSE, <<>>, TRUE)
        ELSE IF bri_fail THEN CmpResult(FALSE, <<"brightness">>, FALSE)
        ELSE IF xy_fail THEN CmpResult(FALSE, <<"color">>, FALSE)
        ELSE IF ct_raise THEN CmpResult(FALSE, <<>>, TRUE)
        ELSE IF ct_fail THEN CmpResult(FALSE, <<"color_temp">>, FALSE)
        ELSE CmpResult(TRUE, <<>>, FALSE)

\* variant: a mirek difference of exactly the tolerance fails
compare_light_states_mirek_inclusive(expected, actual_state) ==
    LET actual_on == (actual_state.state = "on")
        expected_on == expected.on
        \* actual_attrs.get('brightness', 0) / 255 * 100 against the percent
        bri_raise == expected.has_brightness /\ actual_state.brightness = NoneN
        bri_fail == /\ expected.has_brightness
                    /\ actual_state.brightness # NoneN
                    /\ Abs(255 * expected.brightness - 100 * actual_state.brightness)
                          > 255 * brightness_tolerance
        xy_fail == /\ expected.has_xy
                   /\ actual_state.xy_color # <<>>
                   /\ \/ Abs(expected.x - actual_state.xy_color[1]) > color_tolerance
                      \/ Abs(expected.y - actual_state.xy_color[2]) > color_tolerance
        ct_checked == expected.has_ct /\ Truthy(actual_state.color_temp)
        ct_raise == ct_checked /\ expected.mirek = NoneN
        ct_fail == /\ ct_checked
                   /\ expected.mirek # NoneN
                   /\ Abs(expected.mirek - actual_state.color_temp) >= color_temp_tolerance
    IN  IF expected_on # actual_on THEN CmpResult(FALSE, <<"on_off">>, FALSE)
        ELSE IF ~expected_on THEN CmpResult(TRUE, <<>>, FALSE)
        ELSE IF bri_raise THEN CmpResult(FALSE, <<>>, TRUE)
        ELSE IF bri_fail THEN CmpResult(FALSE, <<"brightness">>, FALSE)
        ELSE IF xy_fail THEN CmpResult(FALSE, <<"color">>, FALSE)
        ELSE IF ct_raise THEN CmpResult(FALSE, <<>>, TRUE)
        ELSE IF ct_fail THEN CmpResult(FALSE, <<"color_temp">>, FALSE)
        ELSE CmpResult(TRUE, <<>>, FALSE)

compare_light_states(expected, actual_state) ==
    LET actual_on == (actual_state.state = "on")
        expected_on == expected.on
        \* actual_attrs.get('brightness', 0) / 255 * 100 against the percent
        bri_raise == expected.has_brightness /\ actual_state.brightness = NoneN
        bri_fail == /\ expected.has_brightness
                    /\ actual_state.brightness # NoneN
                    /\ Abs(255 * expected.brightness - 100 * actual_state.brightness)
                          > 255 * brightness_tolerance
        xy_fail == /\ expected.has_xy
                   /\ actual_state.xy_color # <<>>
                   /\ \/ Abs(expected.x - actual_state.xy_color[1]) > color_tolerance
                      \/ Abs(expected.y - actual_state.xy_color[2]) > color_tolerance
        ct_checked == expected.has_ct /\ Truthy(actual_state.color_temp)
        ct_raise == ct_checked /\ expected.mirek = NoneN
        ct_fail == /\ ct_checked
                   /\ expected.mirek # NoneN
                   /\ Abs(expected.mirek - actual_state.color_temp) > color_temp_tolerance
    IN  IF expected_on # actual_on THEN CmpResult(FALSE, <<"on_off">>, FALSE)
        ELSE IF ~expected_on THEN CmpResult(TRUE, <<>>, FALSE)
        ELSE IF bri_raise THEN CmpResult(FALSE, <<>>, TRUE)
        ELSE IF bri_fail THEN CmpResult(FALSE, <<"brightness">>, FALSE)
        ELSE IF xy_fail THEN CmpResult(FALSE, <<"color">>, FALSE)
        ELSE IF ct_raise THEN CmpResult(FALSE, <<>>, TRUE)
        ELSE IF ct_fail THEN CmpResult(FALSE, <<"color_temp">>, FALSE)
        ELSE CmpResult(TRUE, <<>>, FALSE)

\* variant: a list of one string is not taken for the legacy format
_is_legacy_action_format_of_many(actions) == Len(actions) > 1 /\ actions[1].is_str

_is_legacy_action_format(actions) == Len(actions) > 0 /\ actions[1].is_str

RECURSIVE ValidateFrom_stopping(_, _, _, _, _)
\* variant: a target that does not resolve, or has no state, ends the loop
ValidateFrom_stopping(actions, reads, i, all_match, fails) ==
    IF i > Len(actions) THEN [result |-> all_match, failures |-> fails]
    ELSE LET action == actions[i]
             entity_id == get_entity_id_from_hue_id(action.rid)
         IN  IF action.is_str THEN [result |-> FALSE, failures |-> fails]
             ELSE IF action.rid = <<>>
             THEN ValidateFrom_stopping(actions, reads, i + 1, all_match, fails)
             ELSE IF entity_id = None THEN [result |-> FALSE, failures |-> fails]
             ELSE IF reads[entity_id].kind = "raise" THEN [result |-> FALSE, failures |-> fails]
             ELSE IF reads[entity_id].kind = "none" THEN [result |-> FALSE, failures |-> fails]
             ELSE LET c == compare_light_states(action, reads[entity_id])
                  IN  IF c.raised THEN [result |-> FALSE, failures |-> fails]
                      ELSE ValidateFrom_stopping(actions, reads, i + 1, all_match /\ c.match,
                                                 fails \o c.failures)

\* variant of validate_scene_state with that loop
validate_scene_state_stopping(scene_data, reads) ==
    IF scene_data.actions = <<>> THEN [result |-> FALSE, failures |-> <<>>]
    ELSE IF _is_legacy_action_format(scene_data.actions) THEN [result |-> FALSE, failures |-> <<>>]
    ELSE ValidateFrom_stopping(scene_data.actions, reads, 1, TRUE, <<>>)

RECURSIVE ValidateFrom(_, _, _, _, _)
\* the loop of validate_scene_state from action i on: all_match and the
\* failure classes appended so far; an exception ends the loop with False
ValidateFrom(actions, reads, i, all_match, fails) ==
    IF i > Len(actions) THEN [result |-> all_match, failures |-> fails]
    ELSE LET action == actions[i]
             entity_id == get_entity_id_from_hue_id(action.rid)
         IN  IF action.is_str THEN \* action.get raises AttributeError
                  [result |-> FALSE, failures |-> fails]
             ELSE IF action.rid = <<>> THEN ValidateFrom(actions, reads, i + 1, all_match, fails)
             ELSE IF entity_id = None THEN ValidateFrom(actions, reads, i + 1, FALSE, fails)
             ELSE IF reads[entity_id].kind = "raise" THEN [result |-> FALSE, failures |-> fails]
             ELSE IF reads[entity_id].kind = "none" THEN ValidateFrom(actions, reads, i + 1, FALSE, fails)
             ELSE LET c == compare_light_states(action, reads[entity_id])
                  IN  IF c.raised THEN [result |-> FALSE, failures |-> fails]
                      ELSE ValidateFrom(actions, reads, i + 1, all_match /\ c.match,
                                        fails \o c.failures)

\* validate_scene_state: the result and the classes it appends to
\* last_validation_failures, given what the state reads return
validate_scene_state(scene_data, reads) ==
    IF scene_data.actions = <<>> THEN [result |-> FALSE, failures |-> <<>>]
    ELSE IF _is_legacy_action_format(scene_data.actions) THEN [result |-> FALSE, failures |-> <<>>]
    ELSE ValidateFrom(scene_data.actions, reads, 1, TRUE, <<>>)

\* ------------------------------------------------------------------------
\* Actuator
\* ------------------------------------------------------------------------
\* one hub service call
Call(service, entity_id, b, xy, ct) ==
    [service |-> service, entity_id |-> entity_id, brightness |-> b, xy_color |-> xy,
     color_temp |-> ct]

\* variant: brightness 0 is converted as it is
DriveBrightness_zero_kept(brightness_pct) ==
    LET brightness == (brightness_pct * 255) \div 100
    IN  IF brightness > 1 THEN brightness ELSE 1

\* int((brightness_pct / 100) * 255), at least 1, brightness 0 driven as 1 percent
DriveBrightness(brightness_pct) ==
    LET pct == IF brightness_pct = 0 THEN 1 ELSE brightness_pct
        brightness == (pct * 255) \div 100
    IN  IF brightness > 1 THEN brightness ELSE 1

\* the service call control_lights_individually builds for one action
DriveCall(entity_id, expected) ==
    IF ~expected.on THEN Call("light/turn_off", entity_id, NoneN, <<>>, NoneN)
    ELSE Call("light/turn_on", entity_id,
              IF expected.has_brightness THEN DriveBrightness(expected.brightness) ELSE NoneN,
              IF expected.has_xy THEN <<expected.x, expected.y>> ELSE <<>>,
              IF expected.has_ct /\ Truthy(expected.mirek) THEN expected.mirek ELSE NoneN)

RECURSIVE ControlFrom(_, _, _, _, _)
\* the loop of control_lights_individually from action i on; the call with
\* number raise_at (0: none) raises and the exception leaves the loop
ControlFrom(actions, raise_at, i, all_success, calls) ==
    IF i > Len(actions) THEN [result |-> all_success, raised |-> FALSE, calls |-> calls]
    ELSE LET action == actions[i]
             entity_id == get_entity_id_from_hue_id(action.rid)
             made == calls \o << DriveCall(entity_id, action) >>
         IN  IF action.is_str THEN \* action.get raises AttributeError
                  [result |-> FALSE, raised |-> TRUE, calls |-> calls]
             ELSE IF action.rid = <<>> THEN ControlFrom(actions, raise_at, i + 1, all_success, calls)
             ELSE IF entity_id = None THEN ControlFrom(actions, raise_at, i + 1, FALSE, calls)
             ELSE IF Len(made) = raise_at THEN [result |-> FALSE, raised |-> TRUE, calls |-> made]
             ELSE ControlFrom(actions, raise_at, i + 1, all_success, made)

control_lights_individually(scene_data, raise_at) ==
    IF scene_data.actions = <<>> THEN [result |-> FALSE, raised |-> FALSE, calls |-> <<>>]
    ELSE IF _is_legacy_action_format(scene_data.actions)
         THEN [result |-> FALSE, raised |-> FALSE, calls |-> <<>>]
    ELSE ControlFrom(scene_data.actions, raise_at, 1, TRUE, <<>>)

\* ------------------------------------------------------------------------
\* Circuit breaker
\* ------------------------------------------------------------------------
Breaker(st, f, sc, at) == [state |-> st, failures |-> f, successes |-> sc, opened_at |-> at]

\* variant: a success while CLOSED leaves the failure counter
record_success_no_reset(b) ==
    IF b.state = "HALF_OPEN"
    THEN IF b.successes + 1 >= cb_success_threshold
         THEN Breaker("CLOSED", 0, 0, b.opened_at)
         ELSE Breaker("HALF_OPEN", b.failures, b.successes + 1, b.opened_at)
    ELSE b

\* variant: the breaker closes with the success counter as it stands
record_success_counter_kept(b) ==
    IF b.state = "HALF_OPEN"
    THEN IF b.successes + 1 >= cb_success_threshold
         THEN Breaker("CLOSED", 0, b.successes + 1, b.opened_at)
         ELSE Breaker("HALF_OPEN", b.failures, b.successes + 1, b.opened_at)
    ELSE IF b.state = "CLOSED"
    THEN Breaker("CLOSED", 0, b.successes, b.opened_at)
    ELSE b

record_success(b) ==
    IF b.state = "HALF_OPEN"
    THEN IF b.successes + 1 >= cb_success_threshold
         THEN Breaker("CLOSED", 0, 0, b.opened_at)
         ELSE Breaker("HALF_OPEN", b.failures, b.successes + 1, b.opened_at)
    ELSE IF b.state = "CLOSED"
    THEN Breaker("CLOSED", 0, b.successes, b.opened_at)
    ELSE b

\* variant: a failure while HALF_OPEN re-opens without a new opened_at
record_failure_stale_stamp(b, t) ==
    IF b.state = "HALF_OPEN"
    THEN Breaker("OPEN", b.failures, 0, b.opened_at)
    ELSE IF b.state = "CLOSED"
    THEN IF b.failures + 1 >= cb_failure_threshold
         THEN Breaker("OPEN", b.failures + 1, b.successes, t)
         ELSE Breaker("CLOSED", b.failures + 1, b.successes, b.opened_at)
    ELSE b

\* variant: the breaker opens one failure late
record_failure_late(b, t) ==
    IF b.state = "HALF_OPEN"
    THEN Breaker("OPEN", b.failures, 0, t)
    ELSE IF b.state = "CLOSED"
    THEN IF b.failures + 1 > cb_failure_threshold
         THEN Breaker("OPEN", b.failures + 1, b.successes, t)
         ELSE Breaker("CLOSED", b.failures + 1, b.successes, b.opened_at)
    ELSE b

\* variant: a failure while OPEN stamps opened_at again
record_failure_restamped(b, t) ==
    IF b.state = "HALF_OPEN"
    THEN Breaker("OPEN", b.failures, 0, t)
    ELSE IF b.state = "CLOSED"
    THEN IF b.failures + 1 >= cb_failure_threshold
         THEN Breaker("OPEN", b.failures + 1, b.successes, t)
         ELSE Breaker("CLOSED", b.failures + 1, b.successes, b.opened_at)
    ELSE Breaker("OPEN", b.failures, b.successes, t)

record_failure(b, t) ==
    IF b.state = "HALF_OPEN"
    THEN Breaker("OPEN", b.failures, 0, t)
    ELSE IF b.state = "CLOSED"
    THEN IF b.failures + 1 >= cb_failure_threshold
         THEN Breaker("OPEN", b.failures + 1, b.successes, t)
         ELSE Breaker("CLOSED", b.failures + 1, b.successes, b.opened_at)
    ELSE b

\* ------------------------------------------------------------------------
\* Gating
\* ------------------------------------------------------------------------
\* variant: an accepted validation is not recorded in the windows
check_rate_limits_unrecorded(entity_id, t, vts, svts) ==
    LET pruned == SelectSeq2(vts, t, RateWindow)
        spruned == [svts EXCEPT ![entity_id] = SelectSeq2(svts[entity_id], t, RateWindow)]
    IN  IF Len(pruned) >= max_validations_per_minute
        THEN [ok |-> FALSE, vts |-> pruned, svts |-> spruned]
        ELSE IF Len(spruned[entity_id]) >= max_validations_per_scene_per_minute
        THEN [ok |-> FALSE, vts |-> pruned, svts |-> spruned]
        ELSE [ok |-> TRUE, vts |-> pruned, svts |-> spruned]

\* variant: the validation is recorded before the limits are looked at
check_rate_limits_eager(entity_id, t, vts, svts) ==
    LET pruned == Append(SelectSeq2(vts, t, RateWindow), t)
        spruned == [svts EXCEPT ![entity_id] =
                       Append(SelectSeq2(svts[entity_id], t, RateWindow), t)]
    IN  IF Len(pruned) > max_validations_per_minute
        THEN [ok |-> FALSE, vts |-> pruned, svts |-> spruned]
        ELSE IF Len(spruned[entity_id]) > max_validations_per_scene_per_minute
        THEN [ok |-> FALSE, vts |-> pruned, svts |-> spruned]
        ELSE [ok |-> TRUE, vts |-> pruned, svts |-> spruned]

\* check_rate_limits at time t: the verdict and the two windows it leaves
check_rate_limits(entity_id, t, vts, svts) ==
    LET pruned == SelectSeq2(vts, t, RateWindow)
        spruned == [svts EXCEPT ![entity_id] = SelectSeq2(svts[entity_id], t, RateWindow)]
    IN  IF Len(pruned) >= max_validations_per_minute
        THEN [ok |-> FALSE, vts |-> pruned, svts |-> spruned]
        ELSE IF Len(spruned[entity_id]) >= max_validations_per_scene_per_minute
        THEN [ok |-> FALSE, vts |-> pruned, svts |-> spruned]
        ELSE [ok |-> TRUE, vts |-> Append(pruned, t),
              svts |-> [spruned EXCEPT ![entity_id] = Append(spruned[entity_id], t)]]

\* re.match(pattern, scene_name) for a literal pattern
ReMatch(pattern, name) ==
    Len(pattern) <= Len(name) /\ SubSeq(name, 1, Len(pattern)) = pattern

\* variant: a required label is looked for before the excluded ones
LabelNameFilter_include_first(scene_labels, scene_name, excluded, included, patterns) ==
    IF included # {} /\ scene_labels \cap included # {} THEN TRUE
    ELSE IF scene_labels \cap excluded # {} THEN FALSE
    ELSE IF included # {} THEN FALSE
    ELSE IF patterns # {} THEN \E p \in patterns : ReMatch(p, scene_name)
    ELSE TRUE

\* the label and name filters of should_validate_scene for a scene with these
\* labels and this friendly name under the configured lists
LabelNameFilter(scene_labels, scene_name, excluded, included, patterns) ==
    IF scene_labels \cap excluded # {} THEN FALSE
    ELSE IF included # {} THEN scene_labels \cap included # {}
    ELSE IF patterns # {} THEN \E p \in patterns : ReMatch(p, scene_name)
    ELSE TRUE

\* the filters of should_validate_scene after the rate limits
SceneFilter(entity_id, scene_uid) ==
    IF scene_uid # None /\ scene_uid \in exclude_uids THEN FALSE
    ELSE LabelNameFilter(SceneLabels(entity_id), SceneName(entity_id), exclude_labels,
                         include_labels, name_patterns)

\* variant: the timeout of the OPEN breaker never counts as elapsed
should_validate_scene_never_expired(entity_id, scene_uid, t, b, vts, svts) ==
    LET rl == check_rate_limits(entity_id, t, vts, svts)
    IN  IF b.state = "OPEN"
        THEN [ok |-> FALSE, why |-> "breaker", b |-> b, vts |-> vts, svts |-> svts]
        ELSE IF ~rl.ok
        THEN [ok |-> FALSE, why |-> "rate", b |-> b, vts |-> rl.vts, svts |-> rl.svts]
        ELSE [ok |-> SceneFilter(entity_id, scene_uid), why |-> "filter", b |-> b,
              vts |-> rl.vts, svts |-> rl.svts]

\* should_validate_scene at time t: the verdict, the breaker and the windows it leaves
should_validate_scene(entity_id, scene_uid, t, b, vts, svts) ==
    LET expired == Truthy(b.opened_at) /\ t - b.opened_at >= cb_timeout
        b1 == IF b.state = "OPEN" /\ expired
              THEN Breaker("HALF_OPEN", b.failures, 0, b.opened_at) ELSE b
        rl == check_rate_limits(entity_id, t, vts, svts)
    IN  IF b.state = "OPEN" /\ ~expired
        THEN [ok |-> FALSE, why |-> "breaker", b |-> b, vts |-> vts, svts |-> svts]
        ELSE IF ~rl.ok
        THEN [ok |-> FALSE, why |-> "rate", b |-> b1, vts |-> rl.vts, svts |-> rl.svts]
        ELSE [ok |-> SceneFilter(entity_id, scene_uid), why |-> "filter", b |-> b1,
              vts |-> rl.vts, svts |-> rl.svts]

\* ------------------------------------------------------------------------
\* Trigger listener and gating
\* ------------------------------------------------------------------------
\* the states a scene entity reports (activation markers)
SceneStates == {"ts1", "ts2", "unavailable", None}

\* the (old, new) pairs the hub delivers in this model
StateChanges == { <<"ts1", "ts2">>, <<"ts1", "ts1">>, <<"ts1", None>>, <<"ts1", "unavailable">>,
                  <<None, "ts1">>, <<"unavailable", "ts1">> }

\* variant: every record is dropped as too old
PruneRecent_all(rv, cutoff) ==
    [ent \in {x \in DOMAIN rv : rv[x] > cutoff + validation_debounce} |-> rv[ent]]

\* {ent: ts for ent, ts in recent_validations.items() if ts > cutoff}
PruneRecent(rv, cutoff) ==
    [ent \in {x \in DOMAIN rv : rv[x] > cutoff} |-> rv[ent]]

\* variant: the accepted activation is not recorded
PutRecent_dropped(rv, entity, t) == rv

\* variant: the activation is recorded half a window early
PutRecent_early(rv, entity, t) ==
    [ent \in DOMAIN rv \cup {entity} |->
        IF ent = entity THEN t - validation_debounce \div 2 ELSE rv[ent]]

\* recent_validations[entity] = now
PutRecent(rv, entity, t) ==
    [ent \in DOMAIN rv \cup {entity} |-> IF ent = entity THEN t ELSE rv[ent]]

\* variant: the debounce check against half the window
Debounced_half_window(rv, entity, t) ==
    entity \in DOMAIN rv /\ t - rv[entity] < validation_debounce \div 2

\* the debounce check of on_scene_state_changed on the pruned map
Debounced(rv, entity, t) ==
    entity \in DOMAIN rv /\ t - rv[entity] < validation_debounce

\* a scheduled callback: run_in(cb, delay, **kwargs) at time t; run is the
\* index of the activation in the history, not a kwarg of the code
Timer(cb, t, delay, scene_entity, scene_data, delay_multiplier, run) ==
    [cb |-> cb, due |-> t + delay, scene_entity |-> scene_entity, scene_data |-> scene_data,
     delay_multiplier |-> delay_multiplier, run |-> run]

\* variant: a notification whose new state equals the old one is handled
on_scene_state_changed_unfiltered(entity, old, new, t, b, vts, svts, rv) ==
    LET pruned == PruneRecent(rv, t - validation_debounce)
        sv == should_validate_scene(entity, None, t, b, vts, svts)
        same == [b |-> b, vts |-> vts, svts |-> svts]
    IN  IF new = None \/ new = "unavailable"
        THEN same @@ [path |-> "skip", rv |-> rv, sched |-> FALSE]
        ELSE IF Debounced(pruned, entity, t)
        THEN same @@ [path |-> "debounce", rv |-> pruned, sched |-> FALSE]
        ELSE IF ~sv.ok
        THEN [path |-> sv.why, b |-> sv.b, vts |-> sv.vts, svts |-> sv.svts, rv |-> pruned,
              sched |-> FALSE]
        ELSE [path |-> "accept", b |-> sv.b, vts |-> sv.vts, svts |-> sv.svts,
              rv |-> PutRecent(pruned, entity, t), sched |-> TRUE]

\* what one call of on_scene_state_changed at time t does: the verdict, the
\* fields it leaves and whether it schedules perform_scene_validation (this
\* run_in has no handler for a scheduler error around it and is taken to return)
on_scene_state_changed(entity, old, new, t, b, vts, svts, rv) ==
    LET pruned == PruneRecent(rv, t - validation_debounce)
        sv == should_validate_scene(entity, None, t, b, vts, svts)
        same == [b |-> b, vts |-> vts, svts |-> svts]
    IN  IF old = new \/ new = None \/ new = "unavailable"
        THEN same @@ [path |-> "skip", rv |-> rv, sched |-> FALSE]
        ELSE IF Debounced(pruned, entity, t)
        THEN same @@ [path |-> "debounce", rv |-> pruned, sched |-> FALSE]
        ELSE IF ~sv.ok
        THEN [path |-> sv.why, b |-> sv.b, vts |-> sv.vts, svts |-> sv.svts, rv |-> pruned,
              sched |-> FALSE]
        ELSE [path |-> "accept", b |-> sv.b, vts |-> sv.vts, svts |-> sv.svts,
              rv |-> PutRecent(pruned, entity, t), sched |-> TRUE]

\* ------------------------------------------------------------------------
\* Escalation engine: what one run of each callback does
\* ------------------------------------------------------------------------
\* the effect of a callback: the path taken, whether last_validation_failures
\* is assigned and to what, the outcome reported to the breaker, the service
\* calls made, the callbacks scheduled
Eff(path, sets_lvf, failures, outcome, calls, sched) ==
    [path |-> path, sets_lvf |-> sets_lvf, failures |-> failures, outcome |-> outcome,
     calls |-> calls, sched |-> sched]

\* variant: all(...) without the length check
only_color_temp_failed_unguarded(failures) ==
    \A i \in 1..Len(failures) : failures[i] = "color_temp"

\* len(failures) > 0 and all(failure == 'color_temp' for failure in failures)
only_color_temp_failed(failures) ==
    Len(failures) > 0 /\ \A i \in 1..Len(failures) : failures[i] = "color_temp"

SceneTurnOn(scene_entity) == Call("scene/turn_on", scene_entity, NoneN, <<>>, NoneN)

\* variant: the scene is re-activated also when the validation matched
perform_scene_validation_reactivating(tm, reads, call_ok, sched_ok, t) ==
    LET scene_entity == tm.scene_entity
        scene_data == find_scene_in_inventory(scene_entity)
        v == validate_scene_state(scene_data, reads)
        delay_multiplier == IF only_color_temp_failed(v.failures) THEN 2 ELSE 1
        level2_delay == validation_delay * delay_multiplier
        turn_on == << SceneTurnOn(scene_entity) >>
    IN  IF scene_data = NoScene
        THEN Eff("notfound", FALSE, <<>>, "none", <<>>, {})
        ELSE IF ~call_ok
        THEN Eff("error", TRUE, v.failures, "failure", turn_on, {})
        ELSE IF v.result
        THEN Eff("match", TRUE, v.failures, "success", turn_on, {})
        ELSE IF ~sched_ok
        THEN Eff("schederror", TRUE, v.failures, "none", turn_on, {})
        ELSE Eff("miss", TRUE, v.failures, "none", turn_on,
                 { Timer("perform_level2_validation", t, level2_delay, scene_entity,
                         scene_data, delay_multiplier, tm.run) })

\* call_ok: call_service returns; sched_ok: run_in returns
perform_scene_validation(tm, reads, call_ok, sched_ok, t) ==
    LET scene_entity == tm.scene_entity
        scene_data == find_scene_in_inventory(scene_entity)
        v == validate_scene_state(scene_data, reads)
        delay_multiplier == IF only_color_temp_failed(v.failures) THEN 2 ELSE 1
        level2_delay == validation_delay * delay_multiplier
        turn_on == << SceneTurnOn(scene_entity) >>
    IN  IF scene_data = NoScene
        THEN Eff("notfound", FALSE, <<>>, "none", <<>>, {})
        ELSE IF v.result
        THEN Eff("match", TRUE, v.failures, "success", <<>>, {})
        ELSE IF ~call_ok
        THEN \* the outer except records a failure
             Eff("error", TRUE, v.failures, "failure", turn_on, {})
        ELSE IF ~sched_ok
        THEN \* the inner except only logs
             Eff("schederror", TRUE, v.failures, "none", turn_on, {})
        ELSE Eff("miss", TRUE, v.failures, "none", turn_on,
                 { Timer("perform_level2_validation", t, level2_delay, scene_entity,
                         scene_data, delay_multiplier, tm.run) })

\* variant: three times the validation delay whenever only color_temp failed
\* at level 2, whatever the delay level 1 chose
perform_level2_validation_eager(tm, reads, sched_ok, t) ==
    LET scene_entity == tm.scene_entity
        scene_data == tm.scene_data
        v == validate_scene_state(scene_data, reads)
        level3_delay == IF only_color_temp_failed(v.failures)
                        THEN validation_delay * 3 ELSE validation_delay
    IN  IF _is_legacy_action_format(scene_data.actions)
        THEN Eff("legacy", FALSE, <<>>, "success", <<>>, {})
        ELSE IF v.result
        THEN Eff("match", TRUE, v.failures, "success", <<>>, {})
        ELSE IF ~sched_ok
        THEN Eff("schederror", TRUE, v.failures, "none", <<>>, {})
        ELSE Eff("miss", TRUE, v.failures, "none", <<>>,
                 { Timer("perform_level3_control", t, level3_delay, scene_entity,
                         scene_data, 1, tm.run) })

perform_level2_validation(tm, reads, sched_ok, t) ==
    LET scene_entity == tm.scene_entity
        scene_data == tm.scene_data
        level1_delay_multiplier == tm.delay_multiplier
        v == validate_scene_state(scene_data, reads)
        level3_delay == IF only_color_temp_failed(v.failures) /\ level1_delay_multiplier = 2
                        THEN validation_delay * 3 ELSE validation_delay
    IN  IF _is_legacy_action_format(scene_data.actions)
        THEN Eff("legacy", FALSE, <<>>, "success", <<>>, {})
        ELSE IF v.result
        THEN Eff("match", TRUE, v.failures, "success", <<>>, {})
        ELSE IF ~sched_ok
        THEN Eff("schederror", TRUE, v.failures, "none", <<>>, {})
        ELSE Eff("miss", TRUE, v.failures, "none", <<>>,
                 { Timer("perform_level3_control", t, level3_delay, scene_entity,
                         scene_data, 1, tm.run) })

\* variant: the final validation is scheduled also when the control failed
perform_level3_control_continuing(tm, raise_at, sched_ok, t) ==
    LET scene_entity == tm.scene_entity
        scene_data == tm.scene_data
        c == control_lights_individually(scene_data, raise_at)
        final == { Timer("_final_level3_validation", t, level3_settle_delay, scene_entity,
                         scene_data, 1, tm.run) }
    IN  IF c.raised
        THEN Eff("error", FALSE, <<>>, "failure", c.calls, {})
        ELSE IF ~c.result
        THEN Eff("controlfailed", FALSE, <<>>, "failure", c.calls, final)
        ELSE IF ~sched_ok
        THEN Eff("schederror", FALSE, <<>>, "failure", c.calls, {})
        ELSE Eff("driven", FALSE, <<>>, "none", c.calls, final)

\* raise_at: the number of the light service call that raises (0: none)
perform_level3_control(tm, raise_at, sched_ok, t) ==
    LET scene_entity == tm.scene_entity
        scene_data == tm.scene_data
        c == control_lights_individually(scene_data, raise_at)
    IN  IF c.raised
        THEN Eff("error", FALSE, <<>>, "failure", c.calls, {})
        ELSE IF ~c.result
        THEN Eff("controlfailed", FALSE, <<>>, "failure", c.calls, {})
        ELSE IF ~sched_ok
        THEN \* this run_in is not in an inner try: the outer except records a failure
             Eff("schederror", FALSE, <<>>, "failure", c.calls, {})
        ELSE Eff("driven", FALSE, <<>>, "none", c.calls,
                 { Timer("_final_level3_validation", t, level3_settle_delay, scene_entity,
                         scene_data, 1, tm.run) })

\* variant: a final validation that misses sends the run back to level 3
_final_level3_validation_retrying(tm, reads) ==
    LET v == validate_scene_state(tm.scene_data, reads)
    IN  IF v.result
        THEN Eff("match", TRUE, v.failures, "success", <<>>, {})
        ELSE Eff("miss", TRUE, v.failures, "none", <<>>,
                 { Timer("perform_level3_control", tm.due, validation_delay, tm.scene_entity,
                         tm.scene_data, 1, tm.run) })

_final_level3_validation(tm, reads) ==
    LET v == validate_scene_state(tm.scene_data, reads)
    IN  IF v.result
        THEN Eff("match", TRUE, v.failures, "success", <<>>, {})
        ELSE Eff("miss", TRUE, v.failures, "failure", <<>>, {})

\* ------------------------------------------------------------------------
\* State
\* ------------------------------------------------------------------------
VARIABLES
    \* time.time()
    now,
    \* the scene entities the listener is registered for
    scene_entities,
    \* the fields of SceneValidator
    circuit_breaker_state,
    circuit_breaker_failures,
    circuit_breaker_successes,
    circuit_breaker_opened_at,
    validation_timestamps,
    scene_validation_timestamps,
    recent_validations,
    last_validation_failures,
    \* the callbacks handed to run_in and not yet run
    timers,
    \* history: the accepted activations (scene, time) in order, an accepted
    \* activation being a trigger for which perform_scene_validation was scheduled
    accepted,
    \* history: for each activation with a callback pending, what its callbacks
    \* did so far (outcomes reported, number of scene/turn_on calls and of light
    \* calls, the callbacks run with the path each took and its time)
    inflight,
    \* history: number of failure outcomes reported in a row while CLOSED
    streak,
    \* history: what the last step did
    last,
    \* one light on its own: the expected state of an action, the state the
    \* hub reports for the light, the results of compare_light_states so far,
    \* the service call control_lights_individually made, and how far the
    \* light is through compare, drive, settle, compare
    expected,
    actual_state,
    compared,
    driven,
    stage,
    \* one call of a function on its own: the function and its arguments, and
    \* what it returned
    probe,
    answer

\* the variables of the validator and its history
validator == << now, scene_entities, circuit_breaker_state, circuit_breaker_failures,
                circuit_breaker_successes, circuit_breaker_opened_at, validation_timestamps,
                scene_validation_timestamps, recent_validations, last_validation_failures,
                timers, accepted, inflight, streak, last >>

\* the variables of the light on its own
light == << expected, actual_state, compared, driven, stage >>

\* the variables of the function called on its own
unit == << probe, answer >>

vars == << validator, light, unit >>

cbv == << circuit_breaker_state, circuit_breaker_failures, circuit_breaker_successes,
          circuit_breaker_opened_at >>

gates == << validation_timestamps, scene_validation_timestamps, recent_validations >>

\* the breaker fields as one value
CB == Breaker(circuit_breaker_state, circuit_breaker_failures, circuit_breaker_successes,
              circuit_breaker_opened_at)

SetCB(b) ==
    /\ circuit_breaker_state' = b.state
    /\ circuit_breaker_failures' = b.failures
    /\ circuit_breaker_successes' = b.successes
    /\ circuit_breaker_opened_at' = b.opened_at

\* the totals of one activation
Totals(outcomes, activates, drives, trace) ==
    [outcomes |-> outcomes, activates |-> activates, drives |-> drives, trace |-> trace]

NoTotals == Totals(<<>>, 0, 0, <<>>)

\* the record of a step: the handler, the activation (0: none) and its scene,
\* the path taken, whether the declared state was what the reads returned,
\* whether a state read raised, the failure classes the comparisons of the
\* step recorded, the outcome reported and the breaker state it was reported
\* in, the service calls made, whether the activation ended and its totals
\* so far
Last(cb, run, scene, path, present, raised, failures, outcome, st, calls, ended, totals) ==
    [cb |-> cb, run |-> run, scene |-> scene, path |-> path, present |-> present,
     raised |-> raised, failures |-> failures, outcome |-> outcome, st |-> st,
     calls |-> calls, ended |-> ended, totals |-> totals]

NoLast ==
    Last("none", 0, None, "none", FALSE, FALSE, <<>>, "none", "none", <<>>, FALSE, NoTotals)

\* the state initialize leaves, the scene listeners apart
Initialized ==
    /\ now = 0
    /\ circuit_breaker_state = "CLOSED"
    /\ circuit_breaker_failures = 0
    /\ circuit_breaker_successes = 0
    /\ circuit_breaker_opened_at = NoneN
    /\ validation_timestamps = <<>>
    /\ scene_validation_timestamps = [e \in SceneEntities |-> <<>>]
    /\ recent_validations = << >>
    /\ last_validation_failures = <<>>
    /\ timers = {}
    /\ accepted = <<>>
    /\ inflight = << >>
    /\ streak = 0
    /\ last = NoLast

\* no light is looked at on its own
NoLight ==
    /\ expected = StrAct
    /\ actual_state = ReadNone
    /\ compared = <<>>
    /\ driven = <<>>
    /\ stage = "none"

\* the arguments of a call: of get_entity_id_from_hue_id (the mapping and the
\* resource id), of the label and name filters (the labels and name of the
\* scene and the configured lists), of validate_scene_state (the actions and
\* what the state reads return) and of on_scene_state_changed (the
\* notification, the time and the fields of the validator)
NoProbe ==
    [fn |-> "none", map |-> <<>>, rid |-> <<>>, labels |-> {}, name |-> <<>>,
     excluded |-> {}, included |-> {}, patterns |-> {}, actions |-> <<>>,
     reads |-> [e \in LightEntities |-> ReadNone], entity |-> None, old |-> None,
     new |-> None, t |-> 0, b |-> Breaker("CLOSED", 0, 0, NoneN), vts |-> <<>>,
     svts |-> [e \in SceneEntities |-> <<>>], rv |-> << >>]

\* no function is called on its own
NoUnit ==
    /\ probe = NoProbe
    /\ answer = <<>>

Init ==
    /\ Initialized
    /\ scene_entities \in Deployments
    /\ NoLight
    /\ NoUnit

\* the last step was the scene/turn_on call of the validator for this scene:
\* the hub reports the activation it causes as a state change of the scene
EchoOf(entity) ==
    /\ last.cb = "perform_scene_validation"
    /\ last.scene = entity
    /\ last.calls # <<>>

\* the hub delivers a state change of a scene entity to on_scene_state_changed
SceneStateChanged(entity, old, new) ==
    \E r \in { on_scene_state_changed(entity, old, new, now, CB, validation_timestamps,
                                       scene_validation_timestamps, recent_validations) } :
    LET run == Len(accepted) + 1
    IN  /\ entity \in scene_entities
        /\ \/ now \in TriggerTimes
           \/ EchoOf(entity)
        /\ r.sched => Len(accepted) < MaxRuns
        /\ SetCB(r.b)
        /\ validation_timestamps' = r.vts
        /\ scene_validation_timestamps' = r.svts
        /\ recent_validations' = r.rv
        /\ IF r.sched
           THEN /\ timers' = timers \cup
                      { Timer("perform_scene_validation", now, transition_delay, entity,
                              NoScene, 1, run) }
                /\ accepted' = Append(accepted, [scene |-> entity, t |-> now])
                /\ inflight' = (run :> NoTotals) @@ inflight
           ELSE UNCHANGED << timers, accepted, inflight >>
        /\ last' = IF r.path = "skip" THEN last
                   ELSE Last("on_scene_state_changed", IF r.sched THEN run ELSE 0, entity,
                             r.path, FALSE, FALSE, <<>>, "none", circuit_breaker_state, <<>>,
                             FALSE,
                             NoTotals)
        /\ UNCHANGED << now, scene_entities, last_validation_failures, streak, light, unit >>

\* ------------------------------------------------------------------------
\* Scheduler: a callback runs at its due time
\* ------------------------------------------------------------------------
\* the light entities the actions of a scene resolve to
Targets(scene_data) ==
    { get_entity_id_from_hue_id(scene_data.actions[i].rid) :
        i \in { j \in 1..Len(scene_data.actions) : ~scene_data.actions[j].is_str } }
    \cap LightEntities

\* what the state reads of one validation of a scene can return
ReadsFor(scene_data) ==
    LET R(e, r) == IF e \in Targets(scene_data) THEN r ELSE ReadNone
    IN  { [e \in LightEntities |-> IF e = "light.l1" THEN R(e, h[1]) ELSE R(e, h[2])] :
            h \in HubReads }

\* the scene is in the inventory and the reads return, for every action of
\* the scene, exactly the declared state
DeclaredPresent(scene_data, reads) ==
    /\ scene_data # NoScene
    /\ \A i \in 1..Len(scene_data.actions) :
        LET a == scene_data.actions[i]
            e == get_entity_id_from_hue_id(a.rid)
        IN  /\ ~a.is_str
            /\ e \in LightEntities
            /\ reads[e].kind = "state"
            /\ (reads[e].state = "on") = a.on
            /\ a.on =>
                 /\ a.has_brightness =>
                      /\ reads[e].brightness # NoneN
                      /\ 2 * Abs(100 * reads[e].brightness - 255 * a.brightness) <= 100
                 /\ a.has_xy => reads[e].xy_color = <<a.x, a.y>>
                 /\ a.has_ct => reads[e].color_temp = a.mirek

\* the validation of the scene makes a state read that raises
ReadRaises(scene_data, reads) ==
    /\ scene_data.actions # <<>>
    /\ ~_is_legacy_action_format(scene_data.actions)
    /\ \E e \in Targets(scene_data) : reads[e].kind = "raise"

\* the scheduler runs callback tm at its due time
Due(tm, cb) == tm \in timers /\ tm.cb = cb /\ tm.due = now

\* variant: the list is not reset before the validation
NextFailures_kept(failures, e) ==
    IF e.sets_lvf THEN failures \o e.failures ELSE failures

\* last_validation_failures after a callback: a callback that validates
\* resets the list and the comparisons append to it
NextFailures(failures, e) ==
    IF e.sets_lvf THEN <<>> \o e.failures ELSE failures

\* callback tm has run: state, breaker and history change by its effect
Run(tm, cb, eff, present, raised) ==
    \E e \in { eff } :
    LET run == tm.run
        b == IF e.outcome = "success" THEN record_success(CB)
             ELSE IF e.outcome = "failure" THEN record_failure(CB, now)
             ELSE CB
        activates == Cardinality({ i \in 1..Len(e.calls) : e.calls[i].service = "scene/turn_on" })
        totals == Totals(inflight[run].outcomes \o
                             (IF e.outcome = "none" THEN <<>> ELSE << e.outcome >>),
                         inflight[run].activates + activates,
                         inflight[run].drives + Len(e.calls) - activates,
                         Append(inflight[run].trace, [cb |-> cb, path |-> e.path, t |-> now]))
        ended == (e.sched = {})
    IN  /\ timers' = (timers \ {tm}) \cup e.sched
        /\ last_validation_failures' = NextFailures(last_validation_failures, e)
        /\ SetCB(b)
        /\ streak' = IF e.outcome = "none" THEN streak
                     ELSE IF e.outcome = "failure" /\ circuit_breaker_state = "CLOSED"
                     THEN streak + 1
                     ELSE 0
        /\ inflight' = IF ended
                       THEN [r \in DOMAIN inflight \ {run} |-> inflight[r]]
                       ELSE [inflight EXCEPT ![run] = totals]
        /\ last' = Last(cb, run, tm.scene_entity, e.path, present, raised, e.failures,
                        e.outcome,
                        circuit_breaker_state, e.calls, ended, totals)
        /\ UNCHANGED << now, scene_entities, gates, accepted, light, unit >>

RunSceneValidation(tm, call_ok, sched_ok) ==
    /\ Due(tm, "perform_scene_validation")
    /\ \E reads \in ReadsFor(find_scene_in_inventory(tm.scene_entity)) :
        Run(tm, "perform_scene_validation",
            perform_scene_validation(tm, reads, call_ok, sched_ok, now),
            DeclaredPresent(find_scene_in_inventory(tm.scene_entity), reads),
            ReadRaises(find_scene_in_inventory(tm.scene_entity), reads))

RunLevel2Validation(tm, sched_ok) ==
    /\ Due(tm, "perform_level2_validation")
    /\ \E reads \in ReadsFor(tm.scene_data) :
        Run(tm, "perform_level2_validation",
            perform_level2_validation(tm, reads, sched_ok, now),
            DeclaredPresent(tm.scene_data, reads), ReadRaises(tm.scene_data, reads))

RunLevel3Control(tm, raise_at, sched_ok) ==
    /\ Due(tm, "perform_level3_control")
    /\ Run(tm, "perform_level3_control", perform_level3_control(tm, raise_at, sched_ok, now),
           FALSE, FALSE)

RunFinalValidation(tm) ==
    /\ Due(tm, "_final_level3_validation")
    /\ \E reads \in ReadsFor(tm.scene_data) :
        Run(tm, "_final_level3_validation", _final_level3_validation(tm, reads),
            DeclaredPresent(tm.scene_data, reads), ReadRaises(tm.scene_data, reads))

\* ------------------------------------------------------------------------
\* Clock
\* ------------------------------------------------------------------------
\* the earliest due time among the scheduled callbacks, or t if none is earlier
NextDue(t) ==
    IF timers = {} THEN t
    ELSE LET first == CHOOSE tm \in timers : \A o \in timers : tm.due <= o.due
         IN  Min(first.due, t)

\* the next instant of TriggerTimes after t, or MaxTime
NextTrigger(t) ==
    LET later == { x \in TriggerTimes : x > t /\ x <= MaxTime }
    IN  IF later = {} THEN MaxTime ELSE CHOOSE x \in later : \A y \in later : x <= y

\* time passes to the next instant at which something happens: every callback
\* runs at its due time
Tick ==
    /\ \A tm \in timers : tm.due > now
    /\ now < MaxTime
    /\ now' = NextDue(NextTrigger(now))
    /\ last' = NoLast
    /\ UNCHANGED << scene_entities, cbv, gates, last_validation_failures, timers, accepted,
                    inflight, streak, light, unit >>

Next ==
    \/ \E entity \in scene_entities, ch \in StateChanges :
            SceneStateChanged(entity, ch[1], ch[2])
    \/ \E tm \in timers, call_ok \in BOOLEAN, ok \in BOOLEAN : RunSceneValidation(tm, call_ok, ok)
    \/ \E tm \in timers, ok \in BOOLEAN : RunLevel2Validation(tm, ok)
    \/ \E tm \in timers, raise_at \in 0..2, ok \in BOOLEAN : RunLevel3Control(tm, raise_at, ok)
    \/ \E tm \in timers : RunFinalValidation(tm)
    \/ Tick

Spec == Init /\ [][Next]_vars

\* a state change of a deployed scene arrives and passes the debounce
PassingCandidate ==
    \E entity \in scene_entities, ch \in StateChanges :
        /\ SceneStateChanged(entity, ch[1], ch[2])
        /\ last'.cb = "on_scene_state_changed"
        /\ last'.path # "debounce"

\* the scheduler runs a callback that is due
RunDue ==
    \/ \E tm \in timers, call_ok \in BOOLEAN, ok \in BOOLEAN : RunSceneValidation(tm, call_ok, ok)
    \/ \E tm \in timers, ok \in BOOLEAN : RunLevel2Validation(tm, ok)
    \/ \E tm \in timers, raise_at \in 0..2, ok \in BOOLEAN : RunLevel3Control(tm, raise_at, ok)
    \/ \E tm \in timers : RunFinalValidation(tm)

\* the deployments with one scene
FairInit ==
    /\ Initialized
    /\ scene_entities \in { d \in Deployments : Cardinality(d) = 1 }
    /\ NoLight
    /\ NoUnit

\* the validator with a scheduler that runs every due callback, time that
\* passes, and scenes that keep being activated: a candidate that can pass
\* the debounce from some instant on does arrive
FairSpec ==
    /\ FairInit
    /\ [][Next]_vars
    /\ WF_vars(RunDue)
    /\ WF_vars(Tick)
    /\ WF_vars(PassingCandidate)

\* ------------------------------------------------------------------------
\* One light: compare_light_states and the call control_lights_individually
\* makes for one action, applied to the expected and observed states of a
\* bounded family
\* ------------------------------------------------------------------------
Percents == 0..MaxPercent
Natives == 0..MaxNative
Mireks == MinMirek..MaxMirek

TheLight == <<"r","1">>

\* an on-light with a brightness percent against every native brightness
BrightnessInputs ==
    { << Act(TheLight, TRUE, TRUE, e, FALSE, 0, 0, FALSE, 0), Obs("on", n, <<>>, NoneN) >> :
        e \in Percents, n \in Natives }

\* an on-light with a mirek against every observed mirek, and against none
MirekInputs ==
    { << Act(TheLight, TRUE, FALSE, 0, FALSE, 0, 0, TRUE, m), Obs("on", 204, <<>>, a) >> :
        m \in {250, 366}, a \in Mireks \cup {0, NoneN} }

\* expected states with every mix of on, brightness, xy (tenthousandths) and mirek
MixedExpected ==
    { Act(TheLight, on, b[1], b[2], hxy, 3000, 4000, hct, IF hct THEN 366 ELSE 0) :
        on \in BOOLEAN, b \in { <<FALSE, 0>>, <<TRUE, 0>>, <<TRUE, 80>> },
        hxy \in BOOLEAN, hct \in BOOLEAN }

\* observed states at, inside and outside every tolerance, and without a
\* brightness, xy or color_temp value
MixedActual ==
    { Obs(st, n, xy, a) :
        st \in {"on", "off", "unavailable"},
        n \in {NoneN, 0, 2, 178, 204},
        xy \in { <<>>, <<3000, 4000>>, <<3100, 4000>>, <<3101, 4000>>, <<3000, 3800>> },
        a \in {NoneN, 0, 366, 416, 417, 420} }

LightInputs == BrightnessInputs \cup MirekInputs \cup (MixedExpected \X MixedActual)

LightInit ==
    /\ Initialized
    /\ scene_entities = {}
    /\ \E i \in LightInputs : expected = i[1] /\ actual_state = i[2]
    /\ compared = <<>>
    /\ driven = <<>>
    /\ stage = "input"
    /\ NoUnit

\* validate_scene_state compares the light: before the drive and after it
Compare ==
    /\ stage \in {"input", "settled"}
    /\ compared' = Append(compared, compare_light_states(expected, actual_state))
    /\ stage' = IF stage = "input" THEN "compared" ELSE "revalidated"
    /\ UNCHANGED << validator, unit, expected, actual_state, driven >>

\* control_lights_individually makes the service call of the action
Drive ==
    /\ stage = "compared"
    /\ driven' = << DriveCall(get_entity_id_from_hue_id(expected.rid), expected) >>
    /\ stage' = "driven"
    /\ UNCHANGED << validator, unit, expected, actual_state, compared >>

\* the state of a light that takes exactly what the call carries
Settled(state, call) ==
    IF call.service = "light/turn_off" THEN Obs("off", NoneN, <<>>, NoneN)
    ELSE Obs("on",
             IF call.brightness # NoneN THEN call.brightness ELSE state.brightness,
             IF call.xy_color # <<>> THEN call.xy_color ELSE state.xy_color,
             IF call.color_temp # NoneN THEN call.color_temp ELSE state.color_temp)

\* the light takes the call within the settle delay
Settle ==
    /\ stage = "driven"
    /\ actual_state' = Settled(actual_state, driven[1])
    /\ stage' = "settled"
    /\ UNCHANGED << validator, unit, expected, compared, driven >>

LightNext ==
    \/ Compare
    \/ Drive
    \/ Settle

LightSpec == LightInit /\ [][LightNext]_vars

\* ------------------------------------------------------------------------
\* One call: get_entity_id_from_hue_id, the label and name filters of
\* should_validate_scene, validate_scene_state and on_scene_state_changed,
\* each applied to arguments of a bounded family
\* ------------------------------------------------------------------------
\* the most entries of a mapping and the most actions of a scene
MaxKeys == 3
MaxActions == 3

\* the sequences without repetition of at most n elements of S
RECURSIVE Arrangements(_, _)
Arrangements(S, n) ==
    IF n = 0 THEN { <<>> }
    ELSE LET shorter == Arrangements(S, n - 1)
         IN  shorter \cup { Append(q, x) : q \in shorter, x \in S }

Distinct(q) == \A i \in 1..Len(q), j \in 1..Len(q) : i # j => q[i] # q[j]

\* unique ids: equal to resource id a, ending with it, holding _a, holding
\* -a, holding a without a delimiter, and foreign to it
UniqueIds ==
    { <<"a">>, <<"b", "a">>, <<"b", "_", "a", "c">>, <<"b", "-", "a", "c">>, <<"a", "c">>,
      <<"x">> }

\* the entity registered for a unique id
Registered(u) ==
    IF u = <<"a">> THEN "light.exact"
    ELSE IF u = <<"b", "a">> THEN "light.suffix"
    ELSE IF u = <<"b", "_", "a", "c">> THEN "light.underscore"
    ELSE IF u = <<"b", "-", "a", "c">> THEN "light.dash"
    ELSE IF u = <<"a", "c">> THEN "light.prefix"
    ELSE "light.other"

\* the mappings: every insertion order of at most MaxKeys unique ids
Mappings ==
    { [i \in 1..Len(q) |-> << q[i], Registered(q[i]) >>] :
        q \in { r \in Arrangements(UniqueIds, MaxKeys) : Distinct(r) } }

ResourceIds == { <<"a">>, <<"c">>, <<"x">>, <<"z">> }

LookupProbes ==
    { [NoProbe EXCEPT !.fn = "get_entity_id_from_hue_id", !.map = m, !.rid = r] :
        m \in Mappings, r \in ResourceIds }

FilterProbes ==
    { [NoProbe EXCEPT !.fn = "should_validate_scene", !.labels = l, !.name = n,
                      !.excluded = x, !.included = i, !.patterns = p] :
        l \in SUBSET {"keep", "novalidate", "other"},
        n \in { <<"L", "i", "v">>, <<"K", "i">> },
        x \in SUBSET {"novalidate", "keep"},
        i \in SUBSET {"keep", "other"},
        p \in SUBSET { <<"L">>, <<"K", "i", "t">> } }

\* actions on light.l1 and light.l2, on a resource id that is not
\* registered, and without a target
ProbeActions ==
    { Act(<<"r", "1">>, TRUE, TRUE, 80, FALSE, 0, 0, TRUE, 366),
      Act(<<"r", "2">>, FALSE, FALSE, 0, FALSE, 0, 0, FALSE, 0),
      Act(<<"z", "9">>, TRUE, TRUE, 80, FALSE, 0, 0, FALSE, 0),
      Act(<<>>, TRUE, FALSE, 0, FALSE, 0, 0, FALSE, 0) }

ProbeReads ==
    { [e \in LightEntities |-> IF e = "light.l1" THEN r1 ELSE r2] :
        r1 \in {ObsGood, ObsDim, ObsWarm, ReadNone, ReadRaise},
        r2 \in {ObsOff, ObsGood, ReadNone} }

ValidateProbes ==
    { [NoProbe EXCEPT !.fn = "validate_scene_state", !.actions = a, !.reads = r] :
        a \in Arrangements(ProbeActions, MaxActions), r \in ProbeReads }

\* the fields of the validator when a notification arrives: nothing
\* accepted yet; scene.a accepted 10, 25 seconds ago; scene.a accepted 40 and
\* 20 seconds ago, with the breaker CLOSED, OPEN for 15 seconds, OPEN for 2
NotifyGates ==
    LET none == [e \in SceneEntities |-> <<>>]
        at(q) == [none EXCEPT !["scene.a"] = q]
        closed == Breaker("CLOSED", 0, 0, NoneN)
    IN  { [t |-> 30, b |-> closed, vts |-> <<>>, svts |-> none, rv |-> << >>],
          [t |-> 30, b |-> closed, vts |-> <<20>>, svts |-> at(<<20>>),
           rv |-> ("scene.a" :> 20)],
          [t |-> 30, b |-> closed, vts |-> <<5>>, svts |-> at(<<5>>), rv |-> ("scene.a" :> 5)],
          [t |-> 40, b |-> closed, vts |-> <<0, 20>>, svts |-> at(<<0, 20>>),
           rv |-> ("scene.a" :> 20)],
          [t |-> 40, b |-> Breaker("OPEN", 2, 0, 25), vts |-> <<0, 20>>,
           svts |-> at(<<0, 20>>), rv |-> ("scene.a" :> 20)],
          [t |-> 40, b |-> Breaker("OPEN", 2, 0, 38), vts |-> <<0, 20>>,
           svts |-> at(<<0, 20>>), rv |-> ("scene.a" :> 20)] }

NotifyProbes ==
    { [NoProbe EXCEPT !.fn = "on_scene_state_changed", !.entity = e, !.old = o, !.new = n,
                      !.t = g.t, !.b = g.b, !.vts = g.vts, !.svts = g.svts, !.rv = g.rv] :
        e \in {"scene.a", "scene.b", "scene.excl"}, o \in SceneStates, n \in SceneStates,
        g \in NotifyGates }

\* the values the breaker takes: CLOSED below the failure threshold, OPEN
\* and HALF_OPEN at it with opened_at stamped
BreakerValues ==
    { Breaker("CLOSED", f, 0, at) : f \in 0..(cb_failure_threshold - 1), at \in {NoneN, 5} }
    \cup { Breaker("OPEN", cb_failure_threshold, 0, at) : at \in {5, 25} }
    \cup { Breaker("HALF_OPEN", cb_failure_threshold, sc, at) :
              sc \in 0..(cb_success_threshold - 1), at \in {5, 25} }

ReportProbes ==
    { [NoProbe EXCEPT !.fn = f, !.b = b, !.t = 30] :
        f \in {"record_success", "record_failure"}, b \in BreakerValues }

UnitInit ==
    /\ Initialized
    /\ scene_entities = {}
    /\ NoLight
    /\ probe \in LookupProbes \cup FilterProbes \cup ValidateProbes \cup NotifyProbes
                  \cup ReportProbes
    /\ answer = <<>>

\* fn is called with the arguments of the probe and returns out
Called(fn, out) ==
    /\ probe.fn = fn
    /\ answer = <<>>
    /\ answer' = << out >>
    /\ UNCHANGED << validator, light, probe >>

Lookup == Called("get_entity_id_from_hue_id", EntityIdFromHueId(probe.map, probe.rid))

Filter ==
    Called("should_validate_scene",
           LabelNameFilter(probe.labels, probe.name, probe.excluded, probe.included,
                           probe.patterns))

Validate ==
    Called("validate_scene_state",
           validate_scene_state([id |-> <<"S">>, actions |-> probe.actions], probe.reads))

Notify ==
    Called("on_scene_state_changed",
           on_scene_state_changed(probe.entity, probe.old, probe.new, probe.t, probe.b,
                                  probe.vts, probe.svts, probe.rv))

Succeed == Called("record_success", record_success(probe.b))

Fail == Called("record_failure", record_failure(probe.b, probe.t))

UnitNext ==
    \/ Lookup
    \/ Filter
    \/ Validate
    \/ Notify
    \/ Succeed
    \/ Fail

UnitSpec == UnitInit /\ [][UnitNext]_vars

\* ------------------------------------------------------------------------
\* Properties
\* ------------------------------------------------------------------------
\* the indices of the accepted activations
Runs == 1..Len(accepted)

\* the accepted activations of scene S (None: of any scene) in the window (T - RateWindow, T]
AcceptedIn(T, S) ==
    { i \in Runs : /\ T - RateWindow < accepted[i].t
                   /\ accepted[i].t <= T
                   /\ S = None \/ accepted[i].scene = S }

\* the callbacks of a trace and the path each took
TracePaths(tr) == [i \in 1..Len(tr) |-> << tr[i].cb, tr[i].path >>]

\* the failure classes of a list, as a set
FailureSet(failures) == { failures[i] : i \in 1..Len(failures) }

\* the callbacks pending for an activation
TimersOf(run) == { tm \in timers : tm.run = run }

\* the catalog entry of the scene is of the legacy format
Legacy(scene) ==
    LET actions == find_scene_in_inventory(scene).actions
    IN  actions # <<>> /\ actions[1].is_str

\* C1 (debounce monotonicity): any two accepted activations of the same scene
\* entity are at least validation_debounce seconds apart.
C1_DebounceMonotonicity ==
    \A i \in Runs, j \in Runs :
        (i < j /\ accepted[i].scene = accepted[j].scene)
            => accepted[j].t - accepted[i].t >= validation_debounce

\* two accepted activations of one scene exactly validation_debounce apart
C1_Witness ==
    \E i \in Runs, j \in Runs :
        /\ i < j
        /\ accepted[i].scene = accepted[j].scene
        /\ accepted[j].t - accepted[i].t = validation_debounce

\* C2 (rate bound): in every window (T - 60, T] at most max_validations_per_minute
\* activations are accepted in all, and at most
\* max_validations_per_scene_per_minute of any one scene entity.
\* (A window holds the most activations when it ends at the instant of one:
\* moving its end forward to the next activation only drops activations.)
C2_RateBound ==
    \A k \in Runs :
        \E W \in { AcceptedIn(accepted[k].t, None) } :
            /\ Cardinality(W) <= max_validations_per_minute
            /\ \A S \in { accepted[i].scene : i \in W } :
                  Cardinality({ i \in W : accepted[i].scene = S })
                      <= max_validations_per_scene_per_minute

\* a candidate is rejected by the rate limits while its scene has
\* max_validations_per_scene_per_minute accepted activations in the window
C2_Witness ==
    /\ last.cb = "on_scene_state_changed"
    /\ last.path = "rate"
    /\ Cardinality(AcceptedIn(now, last.scene)) = max_validations_per_scene_per_minute

\* C3 (single in-flight record): with validation_debounce larger than
\* transition_delay + 2 * validation_delay + 3 * validation_delay +
\* level3_settle_delay, a scene entity never has more than one run pending
\* in the escalation phases.
C3_SingleInFlight ==
    (validation_debounce >
        transition_delay + 2 * validation_delay + 3 * validation_delay + level3_settle_delay)
    => \A S \in SceneEntities :
          /\ Cardinality({ tm \in timers : tm.scene_entity = S }) <= 1
          /\ Cardinality({ r \in DOMAIN inflight : accepted[r].scene = S }) <= 1

\* a candidate of a scene is debounced while the level 3 control of the
\* earlier activation of that scene is pending
C3_Witness ==
    /\ last.cb = "on_scene_state_changed"
    /\ last.path = "debounce"
    /\ \E tm \in timers : /\ tm.scene_entity = last.scene
                          /\ tm.cb = "perform_level3_control"

\* C4 (exactly one outcome), as stated: every accepted activation reports
\* exactly one success or failure outcome to the breaker by the time its
\* run ends, whatever path it takes.
C4_ExactlyOneOutcome ==
    (last.run > 0 /\ last.ended) => Len(last.totals.outcomes) = 1

\* a failure outcome reported while CLOSED that makes the failures in a row
\* reach cb_failure_threshold opens the breaker and stamps opened_at
C5_Trip ==
    (last.outcome = "failure" /\ last.st = "CLOSED" /\ streak >= cb_failure_threshold)
        => /\ circuit_breaker_state = "OPEN"
           /\ circuit_breaker_opened_at = now

\* while OPEN and before cb_timeout has elapsed no candidate is accepted and
\* no validation is scheduled
C5_Gate ==
    (circuit_breaker_state = "OPEN" /\ now - circuit_breaker_opened_at < cb_timeout)
        => /\ accepted' = accepted
           /\ \A tm \in timers' \ timers : tm.cb # "perform_scene_validation"

\* C5 (breaker trip): cb_failure_threshold failure outcomes in a row while
\* CLOSED open the breaker and stamp opened_at, and while the breaker is OPEN
\* with now - opened_at < cb_timeout every candidate of any scene is rejected
\* and no validation is scheduled.
C5_BreakerTrip == []C5_Trip /\ [][C5_Gate]_vars

\* a candidate is rejected by the breaker that cb_failure_threshold failures
\* in a row opened
C5_Witness ==
    /\ last.cb = "on_scene_state_changed"
    /\ last.path = "breaker"
    /\ circuit_breaker_state = "OPEN"
    /\ streak = cb_failure_threshold
    /\ now - circuit_breaker_opened_at < cb_timeout

L1Miss == << "perform_scene_validation", "miss" >>
L2Miss == << "perform_level2_validation", "miss" >>
L3Driven == << "perform_level3_control", "driven" >>
FinalMiss == << "_final_level3_validation", "miss" >>

\* C6 (escalation order): within a run the scene is re-activated at most
\* once and only by the level 1 callback after its validation missed; lights
\* are driven only by level 3, after a level 2 miss that followed the
\* re-activation; a failure outcome that follows a validation is reported
\* only after the final validation of level 3 missed; a match at any level
\* ends the run with a success outcome and without a service call.
C6_EscalationOrder ==
    LET tr == TracePaths(last.totals.trace)
        activate == \E i \in 1..Len(last.calls) : last.calls[i].service = "scene/turn_on"
        drive == \E i \in 1..Len(last.calls) : last.calls[i].service # "scene/turn_on"
    IN  /\ \A r \in DOMAIN inflight : inflight[r].activates <= 1
        /\ last.totals.activates <= 1
        /\ activate => /\ last.cb = "perform_scene_validation"
                       /\ last.path \in {"miss", "error", "schederror"}
                       /\ ~drive
        /\ drive => /\ last.cb = "perform_level3_control"
                    /\ SubSeq(tr, 1, 2) = << L1Miss, L2Miss >>
                    /\ last.totals.activates = 1
        /\ (last.outcome = "failure" /\ last.path \notin {"error", "controlfailed", "schederror"})
              => tr = << L1Miss, L2Miss, L3Driven, FinalMiss >>
        /\ last.path = "match" => /\ last.outcome = "success"
                                  /\ last.ended
                                  /\ last.calls = <<>>
                                  /\ TimersOf(last.run) = {}

\* a run that went through every level: one re-activation, the lights
\* driven, the final validation missed and a failure reported
C6_Witness ==
    /\ TracePaths(last.totals.trace) = << L1Miss, L2Miss, L3Driven, FinalMiss >>
    /\ last.totals.activates = 1
    /\ last.totals.drives = 2
    /\ last.totals.outcomes = << "failure" >>

\* C7 (round trip), as stated: for any scene of the inventory whose targets
\* all resolve, if the state the level 1 validation reads is exactly the
\* declared state, level 1 matches, a success outcome is reported and no
\* actuator call is made for the activation.
C7_RoundTripAsStated ==
    (last.cb = "perform_scene_validation" /\ last.present)
        => /\ last.path = "match"
           /\ last.totals.outcomes = << "success" >>
           /\ last.calls = <<>>
           /\ last.totals.activates = 0
           /\ last.totals.drives = 0
           /\ last.ended

\* C7 (round trip), amended: for any scene of the inventory with at least
\* one action whose targets all resolve, if the state the level 1
\* validation reads is exactly the declared state, level 1 matches, a
\* success outcome is reported and no actuator call is made for the
\* activation.
C7_RoundTrip ==
    (/\ last.cb = "perform_scene_validation"
     /\ last.present
     /\ find_scene_in_inventory(last.scene).actions # <<>>)
        => /\ last.path = "match"
           /\ last.totals.outcomes = << "success" >>
           /\ last.calls = <<>>
           /\ last.totals.activates = 0
           /\ last.totals.drives = 0
           /\ last.ended

\* level 1 read the declared state of a scene of two actions and matched
C7_Witness ==
    /\ last.cb = "perform_scene_validation"
    /\ last.present
    /\ Len(find_scene_in_inventory(last.scene).actions) = 2
    /\ last.path = "match"
    /\ last.totals.outcomes = << "success" >>

C9_AdaptiveLevel2Delay ==
    (last.cb = "perform_scene_validation" /\ last.path = "miss")
        => LET m1 == IF FailureSet(last_validation_failures) = {"color_temp"} THEN 2 ELSE 1
           IN  /\ Cardinality(TimersOf(last.run)) = 1
               /\ \A tm \in TimersOf(last.run) :
                     /\ tm.cb = "perform_level2_validation"
                     /\ tm.due = now + validation_delay * m1

\* level 1 missed on the colour temperature alone and level 2 is due after
\* twice the validation delay
C9_Witness ==
    /\ last.cb = "perform_scene_validation"
    /\ last.path = "miss"
    /\ last_validation_failures = << "color_temp" >>
    /\ \E tm \in TimersOf(last.run) : tm.due = now + 2 * validation_delay

\* C10 (adaptive level 3 delay and settle): after a level 2 miss the level 3
\* control is scheduled validation_delay * 3 later when level 2 was
\* scheduled with m1 = 2 and the failure classes level 2 recorded are
\* non-empty and all color_temp, and validation_delay later otherwise; the
\* final validation is scheduled level3_settle_delay after the drive.
C10_AdaptiveLevel3Delay ==
    LET tr == last.totals.trace
    IN  /\ (last.cb = "perform_level2_validation" /\ last.path = "miss")
              => LET m1 == (tr[2].t - tr[1].t) \div validation_delay
                     m3 == IF m1 = 2 /\ FailureSet(last_validation_failures) = {"color_temp"}
                           THEN 3 ELSE 1
                 IN  /\ Cardinality(TimersOf(last.run)) = 1
                     /\ \A tm \in TimersOf(last.run) :
                           /\ tm.cb = "perform_level3_control"
                           /\ tm.due = now + validation_delay * m3
        /\ (last.cb = "perform_level3_control" /\ last.path = "driven")
              => /\ Cardinality(TimersOf(last.run)) = 1
                 /\ \A tm \in TimersOf(last.run) :
                       /\ tm.cb = "_final_level3_validation"
                       /\ tm.due = now + level3_settle_delay

\* level 2, scheduled after twice the validation delay, missed on the colour
\* temperature alone and level 3 is due after three times the validation delay
C10_Witness ==
    /\ last.cb = "perform_level2_validation"
    /\ last.path = "miss"
    /\ last_validation_failures = << "color_temp" >>
    /\ last.totals.trace[2].t - last.totals.trace[1].t = 2 * validation_delay
    /\ \E tm \in TimersOf(last.run) : tm.due = now + 3 * validation_delay

\* a callback reports outcome o to the breaker in this step
Reported(o) == last' # last /\ last'.outcome = o

\* a candidate (a state change that is not skipped) was handled in the last step
Candidate == last.cb = "on_scene_state_changed"

C11_Closed ==
    /\ (Reported("success") /\ circuit_breaker_state = "CLOSED")
          => /\ circuit_breaker_failures' = 0
             /\ circuit_breaker_state' = "CLOSED"
    /\ (Reported("failure") /\ circuit_breaker_state = "CLOSED")
          => /\ circuit_breaker_failures' = circuit_breaker_failures + 1
             /\ IF circuit_breaker_failures' >= cb_failure_threshold
                THEN /\ circuit_breaker_state' = "OPEN"
                     /\ circuit_breaker_opened_at' = now
                ELSE /\ circuit_breaker_state' = "CLOSED"
                     /\ circuit_breaker_opened_at' = circuit_breaker_opened_at
    /\ (circuit_breaker_state = "CLOSED" /\ circuit_breaker_state' = "OPEN")
          => /\ Reported("failure")
             /\ streak' >= cb_failure_threshold

\* C11 (breaker in CLOSED): a success outcome resets the failure counter to 0
\* and keeps the state CLOSED; a failure outcome increments the counter by
\* one, and the breaker moves to OPEN, stamping opened_at with the current
\* time, exactly when the counter reaches cb_failure_threshold; so the
\* breaker opens only on the last of cb_failure_threshold failure outcomes
\* with no success outcome between them.
C11_BreakerClosed == [][C11_Closed]_vars

\* a failure reported while CLOSED brought the counter to the threshold and
\* opened the breaker at this instant
C11_Witness ==
    /\ last.outcome = "failure"
    /\ last.st = "CLOSED"
    /\ circuit_breaker_state = "OPEN"
    /\ circuit_breaker_failures = cb_failure_threshold
    /\ circuit_breaker_opened_at = now
    /\ streak = cb_failure_threshold

C12_HalfOpen ==
    /\ (Reported("success") /\ circuit_breaker_state = "HALF_OPEN")
          => IF circuit_breaker_successes + 1 >= cb_success_threshold
             THEN /\ circuit_breaker_state' = "CLOSED"
                  /\ circuit_breaker_failures' = 0
                  /\ circuit_breaker_successes' = 0
             ELSE /\ circuit_breaker_state' = "HALF_OPEN"
                  /\ circuit_breaker_successes' = circuit_breaker_successes + 1
    /\ (Reported("failure") /\ circuit_breaker_state = "HALF_OPEN")
          => /\ circuit_breaker_state' = "OPEN"
             /\ circuit_breaker_opened_at' = now
             /\ circuit_breaker_successes' = 0

\* C12 (breaker in HALF_OPEN): each success outcome increments the success
\* counter, and the breaker moves to CLOSED with both counters reset exactly
\* when the counter reaches cb_success_threshold; one failure outcome moves
\* the breaker back to OPEN with opened_at set to the time of that failure
\* and the success counter reset.
C12_BreakerHalfOpen == [][C12_HalfOpen]_vars

\* a failure reported while HALF_OPEN re-opened the breaker at this instant,
\* later than the instant it was first opened
C12_Witness ==
    /\ last.outcome = "failure"
    /\ last.st = "HALF_OPEN"
    /\ circuit_breaker_state = "OPEN"
    /\ circuit_breaker_opened_at = now
    /\ circuit_breaker_successes = 0

\* C13 (half-open probe), as stated: when the breaker is OPEN and at least
\* cb_timeout has elapsed since opened_at, the next candidate moves the
\* breaker to HALF_OPEN with the success counter 0 and is not rejected by
\* the breaker.
C13_HalfOpenProbe ==
    (/\ Candidate
     /\ last.st = "OPEN"
     /\ now - circuit_breaker_opened_at >= cb_timeout)
        => /\ circuit_breaker_state = "HALF_OPEN"
           /\ circuit_breaker_successes = 0
           /\ last.path # "breaker"

\* C14 (gate order), as stated: the breaker is evaluated before debounce, so
\* a candidate that debounce rejects has passed the breaker: the breaker was
\* not OPEN, or its timeout had elapsed and the candidate moved it to
\* HALF_OPEN.
C14_GateOrder ==
    (Candidate /\ last.path = "debounce" /\ last.st = "OPEN")
        => /\ now - circuit_breaker_opened_at >= cb_timeout
           /\ circuit_breaker_state = "HALF_OPEN"

\* the number of entries x of a sequence
Count(seq, x) == Cardinality({ i \in 1..Len(seq) : seq[i] = x })

\* the accepted activations of scene S (None: of any scene) at instant x
AcceptedAt(x, S) ==
    { k \in Runs : accepted[k].t = x /\ (S = None \/ accepted[k].scene = S) }

\* C15 (record on accept only), as stated: a timestamp is in the global rate
\* window, the per-scene rate window and the debounce map only for an
\* accepted candidate, and an accepted candidate is recorded in all three; a
\* candidate the scene filter rejects leaves no entry, so a rejection by the
\* rate limits is always owed to accepted activations.
C15_RecordOnAcceptOnly ==
    /\ \A i \in 1..Len(validation_timestamps) :
          Count(validation_timestamps, validation_timestamps[i])
              <= Cardinality(AcceptedAt(validation_timestamps[i], None))
    /\ \A S \in SceneEntities :
          \A i \in 1..Len(scene_validation_timestamps[S]) :
              Count(scene_validation_timestamps[S], scene_validation_timestamps[S][i])
                  <= Cardinality(AcceptedAt(scene_validation_timestamps[S][i], S))
    /\ \A S \in DOMAIN recent_validations : AcceptedAt(recent_validations[S], S) # {}
    /\ (Candidate /\ last.path = "accept")
          => /\ Count(validation_timestamps, now) > 0
             /\ Count(scene_validation_timestamps[last.scene], now) > 0
             /\ last.scene \in DOMAIN recent_validations
             /\ recent_validations[last.scene] = now
    /\ (Candidate /\ last.path = "rate")
          => \/ Cardinality(AcceptedIn(now, None)) >= max_validations_per_minute
             \/ Cardinality(AcceptedIn(now, last.scene)) >= max_validations_per_scene_per_minute

C16_Untouched ==
    (/\ last' # last
     /\ last'.cb = "on_scene_state_changed"
     /\ \E tm \in timers : tm.scene_entity = last'.scene)
        => /\ last'.path = "debounce"
           /\ UNCHANGED << timers, inflight, accepted, last_validation_failures, cbv,
                           validation_timestamps, scene_validation_timestamps >>

\* C16 (trigger under active escalation): a trigger for a scene that arrives
\* while an escalation of that scene is pending, the state change caused by
\* the validator's own scene/turn_on included, is rejected by debounce; it
\* schedules nothing and leaves the pending callbacks, the breaker and the
\* rate windows as they are; no activation is ever accepted at the instant
\* of the validator's own re-activation.
C16_TriggerUnderEscalation ==
    /\ [][C16_Untouched]_vars
    /\ [](\A k \in Runs : accepted[k].t \in TriggerTimes)

\* the state change caused by the scene/turn_on of level 1 was debounced
\* while level 2 of that scene is pending
C16_Witness ==
    /\ Candidate
    /\ last.path = "debounce"
    /\ now \notin TriggerTimes
    /\ \E tm \in timers : /\ tm.scene_entity = last.scene
                          /\ tm.cb = "perform_level2_validation"
                          /\ tm.due > now

\* C17 (drive errors do not short-circuit), as stated: level 3 makes the
\* service call of every action of the scene whose target resolves, also
\* when one of the calls raises.
C17_DriveAll ==
    last.cb = "perform_level3_control"
        => LET actions == find_scene_in_inventory(last.scene).actions
           IN  Len(last.calls) =
                  Cardinality({ i \in 1..Len(actions) :
                                  get_entity_id_from_hue_id(actions[i].rid) # None })

\* C18 (errors terminate the record with a failure), as stated: a callback
\* in which a state read or a service call raises reports a failure outcome
\* and ends the run, with no later callback scheduled.
C18_ErrorsFail ==
    (\/ last.raised
     \/ last.path = "error")
        => /\ last.outcome = "failure"
           /\ last.ended
           /\ TimersOf(last.run) = {}

\* C19 (scheduler error), as stated: when run_in raises on scheduling the
\* next callback, a failure outcome is reported and the run ends.
C19_SchedulerError ==
    last.path = "schederror"
        => /\ last.outcome = "failure"
           /\ last.ended

\* C20 (exclusion by resource id), as stated: no activation is accepted for a
\* scene whose resource id is in exclude_uids, and a candidate of such a
\* scene is rejected.
C20_ExcludedByUid ==
    /\ \A k \in Runs : find_scene_in_inventory(accepted[k].scene).id \notin exclude_uids
    /\ (Candidate /\ find_scene_in_inventory(last.scene).id \in exclude_uids)
          => last.path # "accept"

\* the activations of the scene of the last step accepted before that step
C21_Earlier == { i \in Runs : accepted[i].scene = last.scene /\ i # last.run }

\* C21 (debounce boundary): a candidate of scene S is rejected by the
\* debounce exactly when an activation of S was accepted less than
\* validation_debounce seconds before it; a candidate exactly
\* validation_debounce seconds after the last accepted activation of S is not
\* debounced, and is accepted unless the breaker, a rate limit or the scene
\* filter rejects it.
C21_DebounceBoundary ==
    Candidate =>
        /\ last.path = "debounce"
              <=> \E i \in C21_Earlier : now - accepted[i].t < validation_debounce
        /\ last.path \in {"debounce", "breaker", "rate", "filter", "accept"}

\* a candidate exactly validation_debounce seconds after the last accepted
\* activation of its scene was accepted
C21_Witness ==
    /\ Candidate
    /\ last.path = "accept"
    /\ C21_Earlier # {}
    /\ \A i \in C21_Earlier : now - accepted[i].t >= validation_debounce
    /\ \E i \in C21_Earlier : now - accepted[i].t = validation_debounce

\* ------------------------------------------------------------------------
\* Properties of one comparison and one drive (LightSpec)
\* ------------------------------------------------------------------------
\* compare_light_states has just compared the expected with the observed state
Compared == stage \in {"compared", "revalidated"}

\* the result of that comparison
Result == compared[Len(compared)]

\* control_lights_individually has made the call of the action
Driven == stage \in {"driven", "settled", "revalidated"}

\* both states are those of a light that is on
BothOn == expected.on /\ actual_state.state = "on"

\* C22 (comparator on off-lights): when the expected state has on = false
\* and the observed state is not on, the comparison matches and records no
\* failure class, whatever brightness, xy and mirek the two states carry.
C22_OffLights ==
    (Compared /\ ~expected.on /\ actual_state.state # "on")
        => /\ Result.match
           /\ Result.failures = <<>>
           /\ ~Result.raised

\* an off-light that declares brightness, xy and mirek was compared with an
\* observed off state that carries other values
C22_Witness ==
    /\ Compared
    /\ ~expected.on
    /\ expected.has_brightness /\ expected.has_xy /\ expected.has_ct
    /\ actual_state.state = "off"
    /\ actual_state.brightness = 178
    /\ actual_state.xy_color = <<3101, 4000>>
    /\ actual_state.color_temp = 420
    /\ Result.match

\* the rules of the comparison, each on its own
OnOffDeviates == expected.on # (actual_state.state = "on")

BrightnessDeviates ==
    /\ expected.has_brightness
    /\ actual_state.brightness # NoneN
    /\ Abs(255 * expected.brightness - 100 * actual_state.brightness)
          > 255 * brightness_tolerance

ColorDeviates ==
    /\ expected.has_xy
    /\ actual_state.xy_color # <<>>
    /\ \/ Abs(expected.x - actual_state.xy_color[1]) > color_tolerance
       \/ Abs(expected.y - actual_state.xy_color[2]) > color_tolerance

ColorTempDeviates ==
    /\ expected.has_ct
    /\ Truthy(actual_state.color_temp)
    /\ Abs(expected.mirek - actual_state.color_temp) > color_temp_tolerance

\* the class of the first failing rule in the order on_off, brightness,
\* color, color_temp; the later rules apply to lights that should be on
FirstFailing ==
    IF OnOffDeviates THEN <<"on_off">>
    ELSE IF ~expected.on THEN <<>>
    ELSE IF BrightnessDeviates THEN <<"brightness">>
    ELSE IF ColorDeviates THEN <<"color">>
    ELSE IF ColorTempDeviates THEN <<"color_temp">>
    ELSE <<>>

\* C23 (comparator rule order): one comparison records at most one failure
\* class, the class of the first failing rule in the order on_off, brightness,
\* color, color_temp, and is a mismatch then; a matching comparison records
\* none.
C23_RuleOrder ==
    Compared =>
        /\ Len(Result.failures) <= 1
        /\ Result.match => Result.failures = <<>>
        /\ ~Result.raised => /\ Result.failures = FirstFailing
                             /\ Result.match <=> FirstFailing = <<>>

\* a light that deviates in brightness and in color temperature was compared
\* and only brightness was recorded
C23_Witness ==
    /\ Compared
    /\ BothOn
    /\ BrightnessDeviates
    /\ ColorTempDeviates
    /\ Result.failures = <<"brightness">>
    /\ ~Result.match

\* C24 (comparator mode skip): when the expected state carries xy and the
\* observed state has no xy value the comparison gives what it gives for the
\* expected state without xy and records no color class; when the expected
\* state carries a mirek and the observed state has no color_temp value it
\* gives what it gives for the expected state without the mirek and records
\* no color_temp class.
C24_ModeSkip ==
    /\ (Compared /\ expected.has_xy /\ actual_state.xy_color = <<>>)
          => /\ Result.failures # <<"color">>
             /\ Result = compare_light_states([expected EXCEPT !.has_xy = FALSE],
                                               actual_state)
    /\ (Compared /\ expected.has_ct /\ ~Truthy(actual_state.color_temp))
          => /\ Result.failures # <<"color_temp">>
             /\ Result = compare_light_states([expected EXCEPT !.has_ct = FALSE],
                                               actual_state)

\* an on-light declaring xy and a mirek was compared with an observed state
\* that has neither an xy nor a color_temp value, and matched
C24_Witness ==
    /\ Compared
    /\ BothOn
    /\ expected.has_xy /\ expected.has_ct
    /\ actual_state.xy_color = <<>>
    /\ actual_state.color_temp = NoneN
    /\ Result.match

\* C25 (brightness tolerance): for an on-light with expected brightness e
\* percent and observed native brightness n the comparison records a
\* brightness mismatch exactly when |255 e - 100 n| > 255 brightness_tolerance;
\* with e = 80 the values n = 204 and n = 206 match and n = 178 does not.
C25_BrightnessTolerance ==
    (Compared /\ BothOn /\ expected.has_brightness /\ actual_state.brightness # NoneN)
        => LET e == expected.brightness
               n == actual_state.brightness
               mismatch == Result.failures = <<"brightness">>
           IN  /\ mismatch <=> Abs(255 * e - 100 * n) > 255 * brightness_tolerance
               /\ mismatch => ~Result.match
               /\ (e = 80 /\ n \in {204, 206}) => ~mismatch
               /\ (e = 80 /\ n = 178) => mismatch

\* 80 percent was compared with native 206, above the declared value and
\* within the tolerance, and matched
C25_Witness ==
    /\ Compared
    /\ BothOn
    /\ expected.has_brightness /\ expected.brightness = 80
    /\ actual_state.brightness = 206
    /\ Result.match

\* C26 (mirek tolerance): for an on-light that reports a color_temp value a
\* and is expected at mirek m, with no earlier rule failing, the comparison
\* records a color_temp mismatch exactly when |m - a| > color_temp_tolerance;
\* a difference of 30 or of exactly 50 matches, one of 51 or 54 does not.
C26_MirekTolerance ==
    (/\ Compared
     /\ BothOn
     /\ expected.has_ct
     /\ Truthy(actual_state.color_temp)
     /\ ~Result.raised
     /\ Result.failures \notin { <<"brightness">>, <<"color">> })
        => LET d == Abs(expected.mirek - actual_state.color_temp)
               mismatch == Result.failures = <<"color_temp">>
           IN  /\ mismatch <=> d > color_temp_tolerance
               /\ Result.match <=> ~mismatch
               /\ d \in {30, 50} => ~mismatch
               /\ d \in {51, 54} => mismatch

\* mirek 366 was compared with an observed mirek of 416, exactly the
\* tolerance away, and matched
C26_Witness ==
    /\ Compared
    /\ BothOn
    /\ expected.has_ct /\ expected.mirek = 366
    /\ actual_state.color_temp = 416
    /\ Result.match

\* the action declares on = true and brightness 0
ZeroBrightness == expected.on /\ expected.has_brightness /\ expected.brightness = 0

\* C27 (brightness-zero quirk): an action with on = true and brightness 0 is
\* driven by a turn_on with the native brightness of 1 percent, which is not
\* 0; the comparison holds the observed brightness against 0 percent; and a
\* light that holds exactly the driven values matches in the validation that
\* follows.
C27_BrightnessZero ==
    ZeroBrightness =>
        /\ Driven =>
              /\ driven[1].service = "light/turn_on"
              /\ driven[1].brightness > 0
              /\ driven[1] = DriveCall(driven[1].entity_id, [expected EXCEPT !.brightness = 1])
        /\ (Compared /\ actual_state.state = "on" /\ actual_state.brightness # NoneN)
              => (Result.failures = <<"brightness">>
                    <=> 100 * actual_state.brightness > 255 * brightness_tolerance)
        /\ stage = "revalidated" =>
              /\ actual_state.brightness = driven[1].brightness
              /\ Result.match

\* a light at full brightness failed the comparison with brightness 0, was
\* driven, took the driven value and then matched
C27_Witness ==
    /\ ZeroBrightness
    /\ stage = "revalidated"
    /\ compared[1].failures = <<"brightness">>
    /\ actual_state.brightness = driven[1].brightness
    /\ Result.match

\* C28 (drive brightness conversion), as stated: the native brightness sent
\* for brightness percent b is max(1, round(b'/100 * 255)) with b' = 1 for
\* b = 0 and b' = b otherwise; a value v is round(x) when |v - x| <= 1/2.
C28_DriveConversion ==
    (Driven /\ expected.on /\ expected.has_brightness)
        => LET b == IF expected.brightness = 0 THEN 1 ELSE expected.brightness
               v == driven[1].brightness
           IN  \/ 2 * Abs(100 * v - 255 * b) <= 100
               \/ v = 1 /\ 2 * (255 * b) <= 100

\* ------------------------------------------------------------------------
\* Properties of level 3 and of the failure list (Spec)
\* ------------------------------------------------------------------------
\* the actions of the scene of the last step all resolve to a light entity
AllResolve ==
    LET actions == find_scene_in_inventory(last.scene).actions
    IN  /\ actions # <<>>
        /\ ~Legacy(last.scene)
        /\ \A i \in 1..Len(actions) : get_entity_id_from_hue_id(actions[i].rid) # None

\* C29 (level 3 drives every light once), as stated: when level 3 runs for a
\* scene whose targets all resolve it makes exactly one service call per
\* action, in the order of the actions: a turn_off with only the entity id
\* for an action with on = false, otherwise a turn_on with the declared
\* brightness (converted), xy and mirek.
C29_DriveEveryLight ==
    (last.cb = "perform_level3_control" /\ AllResolve)
        => LET actions == find_scene_in_inventory(last.scene).actions
           IN  last.calls =
                  [i \in 1..Len(actions) |->
                      DriveCall(get_entity_id_from_hue_id(actions[i].rid), actions[i])]

\* the callbacks that run validate_scene_state
Validations ==
    {"perform_scene_validation", "perform_level2_validation", "_final_level3_validation"}

\* the last step validated a scene
Validated ==
    /\ last.cb \in Validations
    /\ last.path \in {"match", "miss", "error", "schederror"}

\* C30 (failure-set isolation): after a validation of scene S at any level
\* last_validation_failures holds exactly the classes the comparisons of that
\* validation recorded, none left from an earlier level or from another
\* scene, and the delay multiplier level 1 hands on is 2 exactly when those
\* classes are color_temp only.
C30_FailureIsolation ==
    Validated =>
        /\ last_validation_failures = last.failures
        /\ \A tm \in TimersOf(last.run) :
              tm.cb = "perform_level2_validation"
                 => (tm.delay_multiplier = 2 <=> only_color_temp_failed(last.failures))

\* level 1 of one scene recorded on_off while level 2 of another scene,
\* whose level 1 had recorded color_temp only, is still pending
C30_Witness ==
    /\ Validated
    /\ last.cb = "perform_scene_validation"
    /\ last.failures = <<"on_off">>
    /\ last_validation_failures = <<"on_off">>
    /\ \E tm \in timers : /\ tm.scene_entity # last.scene
                          /\ tm.cb = "perform_level2_validation"
                          /\ tm.delay_multiplier = 2

\* ------------------------------------------------------------------------
\* Properties of the outcomes, the breaker and the length of a run (Spec)
\* ------------------------------------------------------------------------
\* C35 (at most one outcome): an activation with a callback still pending
\* has reported no outcome, and an activation that has ended has reported at
\* most one, whatever raised on its way.
C35_AtMostOneOutcome ==
    /\ \A r \in DOMAIN inflight : inflight[r].outcomes = <<>>
    /\ last.run > 0 => Len(last.totals.outcomes) <= 1
    /\ (last.run > 0 /\ last.outcome # "none")
          => /\ last.ended
             /\ last.totals.outcomes = << last.outcome >>
             /\ TimersOf(last.run) = {}

\* a run in which the first light call of level 3 raised, after two
\* validations had missed, ended with the one failure the handler of the
\* exception reported
C35_Witness ==
    /\ last.cb = "perform_level3_control"
    /\ last.path = "error"
    /\ Len(last.totals.trace) = 3
    /\ last.ended
    /\ last.totals.outcomes = << "failure" >>

\* C37 (breaker invariants): the breaker is CLOSED, OPEN or HALF_OPEN; while
\* CLOSED the failure counter is below cb_failure_threshold; the success
\* counter is below cb_success_threshold, and 0 unless HALF_OPEN; while OPEN
\* or HALF_OPEN opened_at is set to a time not later than now.
C37_BreakerInvariants ==
    /\ circuit_breaker_state \in {"CLOSED", "OPEN", "HALF_OPEN"}
    /\ circuit_breaker_state = "CLOSED" => circuit_breaker_failures < cb_failure_threshold
    /\ circuit_breaker_failures >= 0
    /\ circuit_breaker_successes >= 0
    /\ circuit_breaker_successes < cb_success_threshold
    /\ circuit_breaker_state # "HALF_OPEN" => circuit_breaker_successes = 0
    /\ circuit_breaker_state \in {"OPEN", "HALF_OPEN"}
          => /\ circuit_breaker_opened_at # NoneN
             /\ circuit_breaker_opened_at <= now

\* the breaker closed on the last of cb_success_threshold successes while
\* HALF_OPEN, with both counters at 0
C37_Witness ==
    /\ last.outcome = "success"
    /\ last.st = "HALF_OPEN"
    /\ circuit_breaker_state = "CLOSED"
    /\ circuit_breaker_failures = 0
    /\ circuit_breaker_successes = 0
    /\ circuit_breaker_opened_at # NoneN

\* the callbacks of a run in the order of the levels
Levels ==
    << "perform_scene_validation", "perform_level2_validation", "perform_level3_control",
       "_final_level3_validation" >>

\* the longest a run lasts
RunBound ==
    transition_delay + 2 * validation_delay + 3 * validation_delay + level3_settle_delay

\* the callbacks of a trace are the first levels, each once and in order
InLevelOrder(tr) ==
    /\ Len(tr) <= Len(Levels)
    /\ \A i \in 1..Len(tr) : tr[i].cb = Levels[i]

\* C38 (bounded escalation): a run has at most one callback pending, the
\* one of the level after those it has left, due not before now and not
\* later than RunBound seconds after the activation was accepted; a run that
\* has ended ran at most four callbacks, each level at most once and in
\* order, and ended not later than RunBound seconds after it was accepted.
C38_BoundedEscalation ==
    /\ \A tm \in timers :
          /\ tm.run \in DOMAIN inflight
          /\ \A other \in TimersOf(tm.run) : other = tm
          /\ InLevelOrder(inflight[tm.run].trace)
          /\ Len(inflight[tm.run].trace) < Len(Levels)
          /\ tm.cb = Levels[Len(inflight[tm.run].trace) + 1]
          /\ tm.due >= now
          /\ tm.due <= accepted[tm.run].t + RunBound
    /\ \A r \in DOMAIN inflight : TimersOf(r) # {}
    /\ last.run > 0 => /\ InLevelOrder(last.totals.trace)
                       /\ now <= accepted[last.run].t + RunBound

\* a run ended with its fourth callback exactly RunBound seconds after it
\* was accepted
C38_Witness ==
    /\ last.run > 0
    /\ last.ended
    /\ last.cb = "_final_level3_validation"
    /\ Len(last.totals.trace) = 4
    /\ now = accepted[last.run].t + RunBound

\* the elements of a sequence
Range(q) == { q[i] : i \in 1..Len(q) }

\* the step is the rejection of a candidate by the breaker or a rate limit
Turned == last'.cb = "on_scene_state_changed" /\ last'.path \in {"breaker", "rate"}

\* the rejection adds no timestamp and schedules nothing
C39_NothingAdded ==
    /\ Len(validation_timestamps') <= Len(validation_timestamps)
    /\ Range(validation_timestamps') \subseteq Range(validation_timestamps)
    /\ \A S \in SceneEntities :
          /\ Len(scene_validation_timestamps'[S]) <= Len(scene_validation_timestamps[S])
          /\ Range(scene_validation_timestamps'[S]) \subseteq Range(scene_validation_timestamps[S])
    /\ DOMAIN recent_validations' \subseteq DOMAIN recent_validations
    /\ \A S \in DOMAIN recent_validations' : recent_validations'[S] = recent_validations[S]
    /\ UNCHANGED << timers, accepted, inflight >>

\* the rejection comes from a rate limit after the candidate found the
\* breaker OPEN with cb_timeout elapsed and moved it to HALF_OPEN
C39_HalfOpened ==
    /\ last'.path = "rate"
    /\ circuit_breaker_state = "OPEN"
    /\ now - circuit_breaker_opened_at >= cb_timeout
    /\ circuit_breaker_state' = "HALF_OPEN"
    /\ circuit_breaker_successes' = 0
    /\ UNCHANGED << circuit_breaker_failures, circuit_breaker_opened_at >>

\* C39 (rejections leave the gates untouched), as stated: a candidate
\* rejected by the OPEN breaker or by a rate limit adds no timestamp to the
\* two rate windows or the debounce map, schedules no validation and does
\* not change the breaker.
C39_RejectionFrameAsStated ==
    [][Turned => (C39_NothingAdded /\ UNCHANGED cbv)]_vars

\* C39, amended: such a candidate adds no timestamp and schedules nothing,
\* and leaves the breaker as it is unless it is rejected by a rate limit
\* after it found the breaker OPEN with cb_timeout elapsed: then it has moved
\* the breaker to HALF_OPEN with the success counter 0.
C39_RejectionFrame ==
    [][Turned => (C39_NothingAdded /\ (UNCHANGED cbv \/ C39_HalfOpened))]_vars

\* a candidate that found the breaker OPEN with cb_timeout elapsed was
\* rejected by a rate limit and left the breaker HALF_OPEN
C39_Witness ==
    /\ Candidate
    /\ last.path = "rate"
    /\ last.st = "OPEN"
    /\ circuit_breaker_state = "HALF_OPEN"
    /\ circuit_breaker_successes = 0

\* a deployed scene is activated at instant t, not earlier than cb_timeout
\* after the breaker opened, and its candidate passes the debounce
ProbeArrivesAt(t) ==
    /\ t \in TriggerTimes
    /\ t >= now
    /\ t - circuit_breaker_opened_at >= cb_timeout
    /\ \E entity \in scene_entities :
          ~Debounced(PruneRecent(recent_validations, t - validation_debounce), entity, t)

\* the breaker is OPEN and activations keep arriving after cb_timeout: the
\* environment has not stopped activating scenes, and at the instant from
\* which time stands for the whole future a candidate passes the debounce
OpenAndProbed ==
    /\ circuit_breaker_state = "OPEN"
    /\ Len(accepted) < MaxRuns
    /\ ProbeArrivesAt(MaxTime)

\* a success reported while HALF_OPEN counts, and the one that reaches
\* cb_success_threshold closes the breaker with both counters at 0
C40_SuccessCloses ==
    (last' # last /\ last'.outcome = "success" /\ circuit_breaker_state = "HALF_OPEN")
        => IF circuit_breaker_successes + 1 >= cb_success_threshold
           THEN /\ circuit_breaker_state' = "CLOSED"
                /\ circuit_breaker_failures' = 0
           ELSE /\ circuit_breaker_state' = "HALF_OPEN"
                /\ circuit_breaker_successes' = circuit_breaker_successes + 1

Returned(fn) == probe.fn = fn /\ answer # <<>>

\* action i has a target that resolves to no entity or whose state read
\* returns nothing
Unreachable(actions, reads, i) ==
    /\ actions[i].rid # <<>>
    /\ \/ get_entity_id_from_hue_id(actions[i].rid) = None
       \/ reads[get_entity_id_from_hue_id(actions[i].rid)].kind = "none"

RECURSIVE Reachable(_, _, _)
\* the actions from i on without those of unresolved or unavailable lights
Reachable(actions, reads, i) ==
    IF i > Len(actions) THEN <<>>
    ELSE (IF Unreachable(actions, reads, i) THEN <<>> ELSE << actions[i] >>)
            \o Reachable(actions, reads, i + 1)

\* C31 (unresolved or unavailable light): when the target of an action
\* resolves to no entity, or the state read of its entity returns nothing,
\* validate_scene_state returns a miss and the failure classes it records are
\* those of the other actions of the scene, which are all resolved, read and
\* compared as they are without that action.
C31_UnreachableLight ==
    (/\ Returned("validate_scene_state")
     /\ \E i \in 1..Len(probe.actions) : Unreachable(probe.actions, probe.reads, i))
        => /\ ~answer[1].result
           /\ answer[1].failures =
                 validate_scene_state([id |-> <<"S">>,
                                       actions |-> Reachable(probe.actions, probe.reads, 1)],
                                      probe.reads).failures

\* a scene of an unregistered target, a light without state and a light that
\* is on instead of off was validated: a miss with on_off, recorded for the
\* last light
C31_Witness ==
    /\ Returned("validate_scene_state")
    /\ Len(probe.actions) = 3
    /\ get_entity_id_from_hue_id(probe.actions[1].rid) = None
    /\ get_entity_id_from_hue_id(probe.actions[2].rid) = "light.l1"
    /\ get_entity_id_from_hue_id(probe.actions[3].rid) = "light.l2"
    /\ probe.reads["light.l1"].kind = "none"
    /\ probe.reads["light.l2"] = ObsGood
    /\ ~answer[1].result
    /\ answer[1].failures = <<"on_off">>

\* C32 (trigger filter): a notification is a candidate exactly when its new
\* state is a state, is not "unavailable" and differs from the old state; a
\* notification that is not a candidate schedules no validation and leaves
\* the breaker, the two rate windows and the debounce map as they are.
C32_TriggerFilter ==
    Returned("on_scene_state_changed") =>
        LET r == answer[1]
            candidate == /\ probe.new # None
                         /\ probe.new # "unavailable"
                         /\ probe.new # probe.old
        IN  /\ r.path # "skip" <=> candidate
            /\ ~candidate => /\ ~r.sched
                             /\ r.b = probe.b
                             /\ r.vts = probe.vts
                             /\ r.svts = probe.svts
                             /\ r.rv = probe.rv

\* a notification whose new state equals its old state arrived with no gate
\* closed and was skipped
C32_Witness ==
    /\ Returned("on_scene_state_changed")
    /\ probe.old = "ts1" /\ probe.new = "ts1"
    /\ probe.entity = "scene.a"
    /\ probe.rv = << >>
    /\ probe.b.state = "CLOSED"
    /\ answer[1].path = "skip"

\* C33 (label and name filter): a scene with a label in exclude_labels is
\* rejected; otherwise, with include_labels non-empty, the scene is accepted
\* exactly when it has a label in include_labels, whatever name_patterns is;
\* otherwise, with name_patterns non-empty, exactly when its name matches a
\* pattern; and with neither list it is accepted.
C33_LabelNameFilter ==
    Returned("should_validate_scene") =>
        LET ok == answer[1]
            excl == probe.labels \cap probe.excluded # {}
        IN  /\ excl => ~ok
            /\ (~excl /\ probe.included # {})
                  => (ok <=> probe.labels \cap probe.included # {})
            /\ (~excl /\ probe.included = {} /\ probe.patterns # {})
                  => (ok <=> \E pt \in probe.patterns : ReMatch(pt, probe.name))
            /\ (~excl /\ probe.included = {} /\ probe.patterns = {}) => ok

\* a scene with a required and an excluded label, and a matching name, was
\* rejected
C33_Witness ==
    /\ Returned("should_validate_scene")
    /\ probe.labels \cap probe.excluded # {}
    /\ probe.labels \cap probe.included # {}
    /\ \E pt \in probe.patterns : ReMatch(pt, probe.name)
    /\ ~answer[1]

\* C34 (identity lookup order): the lookup of resource id r returns the
\* entity of the key equal to r when there is one, whatever other keys end
\* with r or hold _r or -r; otherwise the entity of a key that ends with r or
\* holds _r or -r; and None exactly when no key is equal to r or matches it
\* in part.
C34_LookupOrder ==
    Returned("get_entity_id_from_hue_id") =>
        LET map == probe.map
            r == probe.rid
            exact == { i \in 1..Len(map) : map[i][1] = r }
            partial == { i \in 1..Len(map) : PartialMatch(map[i][1], r) }
        IN  /\ exact # {} => \E i \in exact : answer[1] = map[i][2]
            /\ (exact = {} /\ partial # {}) => \E i \in partial : answer[1] = map[i][2]
            /\ answer[1] = None <=> exact \cup partial = {}

\* the key equal to the resource id was registered after a key that ends
\* with it, and the entity of the equal key was returned
C34_Witness ==
    /\ Returned("get_entity_id_from_hue_id")
    /\ probe.rid = <<"a">>
    /\ Len(probe.map) >= 2
    /\ probe.map[1][1] = <<"b", "a">>
    /\ probe.map[2][1] = <<"a">>
    /\ answer[1] = "light.exact"

\* C36 (outcomes while OPEN are ignored): record_success and record_failure
\* called while the breaker is OPEN leave the state, the failure counter, the
\* success counter and opened_at as they are.
C36_IgnoredWhileOpen ==
    (/\ Returned("record_success") \/ Returned("record_failure")
     /\ probe.b.state = "OPEN")
        => answer[1] = probe.b

\* a failure was reported while the breaker was OPEN, after the instant it
\* was opened, and opened_at was not stamped again
C36_Witness ==
    /\ Returned("record_failure")
    /\ probe.b.state = "OPEN"
    /\ probe.t > probe.b.opened_at
    /\ answer[1].state = "OPEN"
    /\ answer[1].opened_at = probe.b.opened_at

====
